---- MODULE Spec2Model ----
(***************************************************************************)
(* Diff-based job tracker: the incremental poll state machine of           *)
(* src/main.py (run_once and the three source modes), the per-candidate    *)
(* pipeline _process_candidate, the SQLite store of src/database.py and    *)
(* the call interface of the notifier and the classifier.                  *)
(*                                                                         *)
(* One poll cycle is a sequence of steps of one sequential process:        *)
(*   run_once start + source fetch  ->  one step per candidate  ->         *)
(*   checkpoint write / return.                                            *)
(* Between cycles the environment may push a commit to the tracked branch  *)
(* or edit the record list of the record-store source.                     *)
(* In dual-source mode the two fetches are two tasks whose steps           *)
(* interleave.  The retry loops of the network clients (github_client,     *)
(* airtable_client, notifier, llm_engine) are a second state machine,      *)
(* RetrySpec, over the last variables.                                     *)
(***************************************************************************)
EXTENDS Integers, Sequences, FiniteSets, TLC

VARIABLES
    settings,             \* config.Settings of the process
    last_commit_sha,      \* state table, key 'last_commit_sha' (NONE: no row)
    processed_jobs,       \* processed_jobs table: a set of rows
    commits,              \* tracked branch: commits[i] = rows commit i+1 added to the tracked file
    records,              \* record-store source: the current record list
    pc,                   \* "idle" (no process), "process" (inside _process_candidates),
                          \* "returned" (run_once is over, the process not yet gone)
    phase,                \* which source's batch is being processed
    queue,                \* candidates of the current batch not yet processed
    github_result,        \* GithubFetchResult of this cycle (NONE: none)
    airtable_candidates,  \* record-store candidates of this cycle (dual mode: awaiting their turn)
    github_error,         \* dual mode: the revision-source fetch raised
    airtable_error,       \* dual mode: the record-store fetch raised
    exit_code,            \* result of the last cycle: 0, 1, "running", "killed", "none"
    sha_at_start,         \* observation: checkpoint when the current/last cycle started
    call,                 \* observation: what the last _process_candidate call did
    llm_log,              \* observation: dedup keys handed to the classifier in this cycle, in order
    jobs_at_start,        \* observation: processed_jobs when the current/last cycle started
    classified_before,    \* observation: dedup keys handed to the classifier in earlier cycles
    returned_shas,        \* observation: the revision ids get_latest_commit_sha has returned
    relisted,             \* observation: the last cycle listed the record store and returned,
                          \* and the record list has not been edited since
    airtable_ids,         \* the process's settings.airtable_base_id / airtable_table_id
    github_task,          \* dual mode: position of the task running _fetch_github_candidates
    airtable_task,        \* dual mode: position of the task running _fetch_airtable_candidates
    accesses,             \* observation: who read or wrote which shared location while fetching
    fetch_requests,       \* observation: the sources a request was sent to in this cycle
    op,                   \* retry loop: the operation being called ("none": no call)
    attempt,              \* retry loop: the loop variable of `for attempt in range(retries)`
    responses,            \* retry loop: what each request of this call met, in order
    sleeps,               \* retry loop: the time.sleep() calls of this call, in seconds
    status,               \* retry loop: "idle", "running", "returned", "raised"
    last_error,           \* retry loop: the exception held in last_error / raised
    raw_url,              \* link normalizer: the raw URL text
    other_url,            \* link normalizer: a second raw URL text
    url_pc,               \* link normalizer: "none", "raw", "normalized", "renormalized"
    normalized,           \* link normalizer: _normalize_candidate_url(raw_url)
    other_normalized,     \* link normalizer: _normalize_candidate_url(other_url)
    renormalized,         \* link normalizer: _normalize_candidate_url(normalized)
    link_url,             \* link filter: the url _is_valid_apply_link is called with
    link_pc,              \* link filter: "none", "url", "checked"
    link_valid,           \* link filter: _is_valid_apply_link(link_url)
    row_anchors,          \* row extractor: the anchors of the row, each an href and a label
    raw_html_string,      \* row extractor: the text of the row extract_apply_link is called with
    extract_pc,           \* row extractor: "none", "row", "extracted"
    apply_link,           \* row extractor: extract_apply_link(raw_html_string)
    added_lines,          \* row reconstruction: the added lines of a diff
    rows_pc,              \* row reconstruction: "none", "lines", "reconstructed", "candidates"
    primary_rows,         \* row reconstruction: the rows of the primary strategy
    reconstructed,        \* row reconstruction: reconstruct_added_rows(added_lines)
    row_candidates,       \* row reconstruction: the candidates built from the rows
    row_processed,        \* row reconstruction: the candidates the loop has taken, in order
    row_cells,            \* age extraction: the cells of the row
    row_html,             \* age extraction: the text of the row extract_posted_age is called with
    age_token,            \* date estimate: the token estimate_posted_date_from_age is called with
    now,                  \* date estimate: what datetime.now(timezone.utc) returns in the call
    date_pc,              \* date estimate: "none", "row", "token", "estimated"
    posted_date,          \* date estimate: estimate_posted_date_from_age(age_token)
    doc_edit,             \* commit diff: the edit of the tracked document between the revisions
    compare_files,        \* commit diff: the "files" list of the compare result
    diff_pc,              \* commit diff: "none", "compare", "returned"
    diff_result           \* commit diff: get_commit_diff(old_sha, new_sha)

poll_vars == <<settings, last_commit_sha, processed_jobs, commits, records, pc, phase, queue,
               github_result, airtable_candidates, github_error, airtable_error, exit_code,
               sha_at_start, call, llm_log, jobs_at_start, relisted, airtable_ids,
               classified_before, returned_shas, github_task, airtable_task, accesses, fetch_requests>>

retry_vars == <<op, attempt, responses, sleeps, status, last_error>>

url_vars == <<raw_url, other_url, url_pc, normalized, other_normalized, renormalized>>

link_vars == <<link_url, link_pc, link_valid>>

extract_vars == <<row_anchors, raw_html_string, extract_pc, apply_link>>

rows_vars == <<added_lines, rows_pc, primary_rows, reconstructed, row_candidates, row_processed>>

date_vars == <<row_cells, row_html, age_token, now, date_pc, posted_date>>

diff_vars == <<doc_edit, compare_files, diff_pc, diff_result>>

text_vars == <<date_vars, diff_vars>>

parse_vars == <<url_vars, link_vars, extract_vars, rows_vars, text_vars>>

vars == <<poll_vars, retry_vars, parse_vars>>

(***************************************************************************)
(* Bounds and program constants                                            *)
(***************************************************************************)
MaxRev == 3          \* at most MaxRev commits on the tracked branch
MaxRecords == 2      \* at most MaxRecords records in the record store
MaxItems == 2        \* at most MaxItems added rows and records in both sources together
MaxLines == 4        \* at most MaxLines added lines in a diff
MaxAnchors == 2      \* at most MaxAnchors anchors in a row
MaxCells == 6        \* at most MaxCells cells in a row
MaxDigits == 2       \* at most MaxDigits digits in an age token
MaxQuery == 2        \* at most MaxQuery parameters in the query of a raw URL
min_notify_score == 75

NONE == "None"
NoSha == 0           \* get_last_commit_sha() is None: the state table has no checkpoint row
Scores == {74, 75, 80}

(***************************************************************************)
(* Inputs: links, table rows of the tracked file, records of the record    *)
(* store, classifier answers, channel answers                              *)
(***************************************************************************)
\* A raw link as it stands in a source: the resource it names and whether it
\* carries a tracking query parameter (utm_*, ref, ...).
LinkA == [target |-> "a.example/apply", tracking |-> FALSE]
LinkATracked == [target |-> "a.example/apply", tracking |-> TRUE]
LinkB == [target |-> "b.example/jobs/7", tracking |-> FALSE]

\* The "no link" value (Python None / empty string).
NoLink == [target |-> "", tracking |-> FALSE]

\* Rows a commit can add to the tracked file: href is the row's only link that
\* passes the validity filter (NoLink: none), company/role its first two cells
\* (NONE: no such cell).
RowSet ==
    { [href |-> LinkA, company |-> "Acme", role |-> "SWE Intern"],
      [href |-> LinkB, company |-> "Beta", role |-> "ML Intern"],
      [href |-> NoLink, company |-> "Logo Inc", role |-> NONE] }

\* Records of the record store that carry an apply URL (a record without one
\* yields no candidate, main.py:173-175, and is the same as its absence).
RecordSet ==
    { [apply |-> LinkA, company |-> NONE, role |-> "Data Intern"],
      [apply |-> LinkATracked, company |-> "Acme", role |-> NONE] }

\* Sequences over S of length at most n.
SeqUpTo(S, n) == UNION { [1..k -> S] : k \in 0..n }

\* What the classifier does with one row: it raises, or returns a JobAnalysis.
NoAnalysis == [ok |-> FALSE, company |-> "", role |-> "", is_tech_intern |-> FALSE,
               prestige_score |-> 0]
LLMOutcomes ==
    { NoAnalysis } \cup
    [ok : {TRUE}, company : {"Acme Corp"}, role : {"Software Engineer Intern"},
     is_tech_intern : BOOLEAN, prestige_score : Scores]

\* What a channel's endpoint answers to a delivery request.
ChannelAnswers == {"accepted", "rejected"}

(***************************************************************************)
(* parsing_utils / main helpers                                            *)
(***************************************************************************)
\* parsing_utils._normalize_candidate_url: tracking query parameters are dropped.
_normalize_candidate_url(raw) == [raw EXCEPT !.tracking = FALSE]

\* parsing_utils.extract_apply_link: the row's valid link, normalized, or NoLink.
extract_apply_link(row) ==
    IF row.href = NoLink THEN NoLink ELSE _normalize_candidate_url(row.href)

\* main._hash_link: sha256 hex digest of the link text (injective on the links used).
_hash_link(link) == <<"sha256", link.target, link.tracking>>

\* main.JobCandidate for one row of the tracked file; posted_age and posted_date
\* are the keyword arguments later handed to the notifier.
_build_github_candidate(row) ==
    [apply_url |-> extract_apply_link(row),
     company_fallback |-> IF row.company = NONE THEN "Unknown" ELSE row.company,
     role_fallback |-> IF row.role = NONE THEN "Unknown" ELSE row.role]

\* main._build_airtable_candidate: the apply URL is taken as found in the fields.
_build_airtable_candidate(record) ==
    [apply_url |-> record.apply,
     company_fallback |-> IF record.company = NONE THEN "Unknown" ELSE record.company,
     role_fallback |-> IF record.role = NONE THEN "Unknown" ELSE record.role]

\* GithubCandidates as it would be if a row without an apply link were kept.
GithubCandidates_all(rows) == [i \in 1..Len(rows) |-> _build_github_candidate(rows[i])]

\* main.py:320: the candidates of the rows that have an apply link, order kept.
RECURSIVE GithubCandidates(_)
GithubCandidates(rows) ==
    IF rows = <<>> THEN <<>>
    ELSE IF extract_apply_link(Head(rows)) = NoLink THEN GithubCandidates(Tail(rows))
    ELSE <<_build_github_candidate(Head(rows))>> \o GithubCandidates(Tail(rows))

\* main.py:343-351: one candidate per record, order kept.
AirtableCandidates(recs) == [i \in 1..Len(recs) |-> _build_airtable_candidate(recs[i])]

(***************************************************************************)
(* database.Database                                                       *)
(***************************************************************************)
\* The methods class Database defines (database.py:13-99).
DatabaseMethods ==
    {"__init__", "init_schema", "get_last_commit_sha", "set_last_commit_sha",
     "exists", "insert_processed_job", "close"}

\* exists as it would be with a lookup that never matches.
exists_never(jobs, link_hash) == FALSE

\* Database.exists: a row with this primary key is in processed_jobs.
exists(jobs, link_hash) == \E r \in jobs : r.link_hash = link_hash

\* Database.insert_processed_job: a plain INSERT into a table whose primary key
\* is link_hash; a second row for a key violates the constraint and raises.
\* (created_at, the wall-clock time of the insert, is left out.)
insert_processed_job(jobs, row) ==
    IF exists(jobs, row.link_hash)
    THEN [jobs |-> jobs, raised |-> "IntegrityError"]
    ELSE [jobs |-> jobs \cup {row}, raised |-> NONE]

(***************************************************************************)
(* llm_engine.JobAnalysis, notifier.Notifier                               *)
(***************************************************************************)
\* The fields of the pydantic model JobAnalysis (extra="forbid").
JobAnalysisFields ==
    {"company", "role", "location", "company_description", "is_tech_intern",
     "prestige_score", "location_priority", "reason"}

\* The parameters send_discord and send_facebook declare besides self.
NotifierParams == {"job", "apply_link"}

\* The keyword arguments main._process_candidate passes to both senders.
NotifyKeywords == {"posted_age", "posted_date"}

\* Notifier.send_discord called with the given keyword arguments; answer is
\* what the webhook replies.  Result: "sent" or the exception raised.
send_discord(keywords, answer) ==
    IF ~(keywords \subseteq NotifierParams) THEN "TypeError"
    ELSE IF answer = "accepted" THEN "sent"
    ELSE "RuntimeError"

\* Notifier.send_facebook: "sent", "skipped" (returned without a request) or
\* the exception raised.
send_facebook(st, keywords, answer) ==
    IF ~(keywords \subseteq NotifierParams) THEN "TypeError"
    ELSE IF ~st.enable_facebook THEN "skipped"
    ELSE IF st.facebook_page_access_token = NONE \/ st.facebook_page_id = NONE THEN "skipped"
    ELSE IF st.facebook_send_as_dm /\ st.facebook_recipient_psid = NONE THEN "skipped"
    ELSE IF answer = "accepted" THEN "sent"
    ELSE "RuntimeError"

\* A call returned normally (no exception).
Returned(result) == result \in {"sent", "skipped"}

(***************************************************************************)
(* main._process_candidate                                                 *)
(***************************************************************************)
\* The record of one _process_candidate call: what it looked up, whom it
\* called and what it wrote.
NoCall ==
    [link_hash |-> <<>>, existed |-> FALSE, llm |-> NoAnalysis, classified |-> FALSE,
     discord |-> "not_called", facebook |-> "not_called",
     discord_answer |-> "n/a", facebook_answer |-> "n/a",
     inserted |-> {}, raised |-> NONE]

\* The exceptions a sender can leave with.
SendErrors == {"TypeError", "RuntimeError"}

\* db.insert_processed_job(...) as the last statement of the call: the new
\* table, the exception that leaves the function (NONE: it returns) and the
\* call record.
Persist(jobs, log, row) ==
    LET ins == insert_processed_job(jobs, row)
    IN  [jobs |-> ins.jobs,
         raised |-> ins.raised,
         log |-> [log EXCEPT !.inserted = ins.jobs \ jobs, !.raised = ins.raised]]

\* _on_llm_failure as it would be if the except clause only logged.
_on_llm_failure_no_record(jobs, candidate, log) ==
    [jobs |-> jobs, raised |-> NONE, log |-> log]

\* _on_llm_failure as it would be if the row were recorded as notified.
_on_llm_failure_notified(jobs, candidate, log) ==
    Persist(jobs, log,
            [link_hash |-> _hash_link(candidate.apply_url),
             company |-> candidate.company_fallback,
             role |-> candidate.role_fallback,
             score |-> 0,
             notified |-> TRUE])

\* 218-227: the classifier raised; the row is recorded with the fallback names.
_on_llm_failure(jobs, candidate, log) ==
    Persist(jobs, log,
            [link_hash |-> _hash_link(candidate.apply_url),
             company |-> candidate.company_fallback,
             role |-> candidate.role_fallback,
             score |-> 0,
             notified |-> FALSE])

\* qualifies as it would be with > in place of >=.
qualifies_strict(st, analysis) ==
    analysis.is_tech_intern /\ analysis.prestige_score > st.min_notify_score

\* 229: the notify condition.
qualifies(st, analysis) ==
    analysis.is_tech_intern /\ analysis.prestige_score >= st.min_notify_score

\* _notify as it would be with both senders inside one try: the second is not
\* called when the first raises.
_notify_one_try(st, discord_answer, facebook_answer) ==
    [discord |-> send_discord(NotifyKeywords, discord_answer),
     facebook |-> IF st.enable_facebook
                     /\ Returned(send_discord(NotifyKeywords, discord_answer))
                  THEN send_facebook(st, NotifyKeywords, facebook_answer)
                  ELSE "not_called"]

\* 230-243: both senders, each inside its own try/except Exception.
_notify(st, discord_answer, facebook_answer) ==
    [discord |-> send_discord(NotifyKeywords, discord_answer),
     facebook |-> IF st.enable_facebook
                  THEN send_facebook(st, NotifyKeywords, facebook_answer)
                  ELSE "not_called"]

\* 215-262: the call for a link that is not in processed_jobs.
_process_fresh(jobs, candidate, st, llm, discord_answer, facebook_answer) ==
    LET link_hash == _hash_link(candidate.apply_url)
        base == [NoCall EXCEPT !.link_hash = link_hash, !.classified = TRUE]
    IN
    IF ~llm.ok
    THEN _on_llm_failure(jobs, candidate, base)
    ELSE IF qualifies(st, llm)
    THEN LET sent == _notify(st, discord_answer, facebook_answer)
         IN  Persist(jobs,
                     [base EXCEPT !.llm = llm,
                                  !.discord = sent.discord,
                                  !.facebook = sent.facebook,
                                  !.discord_answer = discord_answer,
                                  !.facebook_answer =
                                      IF st.enable_facebook THEN facebook_answer ELSE "n/a"],
                     [link_hash |-> link_hash,
                      company |-> llm.company,
                      role |-> llm.role,
                      score |-> llm.prestige_score,
                      notified |-> Returned(sent.discord) \/ Returned(sent.facebook)])
    ELSE \* 247-254: the arguments of the log call read analysis.company_reputation
         IF "company_reputation" \in JobAnalysisFields
         THEN Persist(jobs, [base EXCEPT !.llm = llm],
                      [link_hash |-> link_hash,
                       company |-> llm.company,
                       role |-> llm.role,
                       score |-> llm.prestige_score,
                       notified |-> FALSE])
         ELSE [jobs |-> jobs, raised |-> "AttributeError",
               log |-> [base EXCEPT !.llm = llm, !.raised = "AttributeError"]]

\* _process_candidate as it would be without the exists() check.
_process_candidate_no_dedup(jobs, candidate, st, llm, discord_answer, facebook_answer) ==
    _process_fresh(jobs, candidate, st, llm, discord_answer, facebook_answer)

\* _process_candidate as it would be if a known link were processed again and
\* its row replaced.
_process_candidate_refresh(jobs, candidate, st, llm, discord_answer, facebook_answer) ==
    _process_fresh({r \in jobs : r.link_hash # _hash_link(candidate.apply_url)},
                   candidate, st, llm, discord_answer, facebook_answer)

\* main._process_candidate, 210-262.
_process_candidate(jobs, candidate, st, llm, discord_answer, facebook_answer) ==
    IF exists(jobs, _hash_link(candidate.apply_url))
    THEN [jobs |-> jobs, raised |-> NONE,
          log |-> [NoCall EXCEPT !.link_hash = _hash_link(candidate.apply_url),
                                 !.existed = TRUE]]
    ELSE _process_fresh(jobs, candidate, st, llm, discord_answer, facebook_answer)

(***************************************************************************)
(* The poll cycle: main.run_once and the three source modes                *)
(***************************************************************************)
\* The values SOURCE_TYPE selects a source mode for (main.py:474-479).
SourceTypes == {"github", "airtable", "both"}

\* The settings the process can be started with.  SOURCE_TYPE is any string
\* ("rss": one that selects no mode); the record-store token and the shared
\* view URL may be missing (config.py:19, 23).  The modes that never read
\* the record-store settings are started with one value of them.
SettingsSet ==
    { st \in [source_type : SourceTypes \cup {"rss"},
              enable_facebook : BOOLEAN,
              facebook_page_access_token : {"token"},
              facebook_page_id : {"page"},
              facebook_send_as_dm : {FALSE},
              facebook_recipient_psid : {NONE},
              facebook_auto_use_captured_psid : BOOLEAN,
              airtable_pat : {"pat", NONE},
              airtable_base_id : {NONE},
              airtable_table_id : {NONE},
              airtable_shared_view_url : {"airtable.com/appX/tblY/viwZ", NONE},
              min_notify_score : {min_notify_score}] :
        st.source_type \notin {"airtable", "both"}
            => /\ st.airtable_pat = "pat"
               /\ st.airtable_shared_view_url = "airtable.com/appX/tblY/viwZ" }

\* GitHubClient.get_latest_commit_sha: commit i of the branch has sha i; the
\* branch starts with one commit and commits[i] is what commit i+1 added.
get_latest_commit_sha == Len(commits) + 1

\* GitHubClient.get_commit_diff(old, new): the added lines of the tracked file
\* between the two commits, as table rows in order.
get_commit_diff(old_sha, new_sha) ==
    IF old_sha < new_sha THEN SubSeq(commits, old_sha, new_sha - 1) ELSE <<>>

NoResult ==
    [candidates |-> <<>>, current_sha |-> NoSha, should_update_sha |-> FALSE,
     bootstrapped |-> FALSE]

\* _fetch_github_candidates as it would be if the diff were taken against the
\* parent of the head commit instead of the checkpoint.
_fetch_github_candidates_head_only(last_sha) ==
    LET current_sha == get_latest_commit_sha IN
    IF last_sha = NoSha
    THEN [candidates |-> <<>>, current_sha |-> current_sha, should_update_sha |-> TRUE,
          bootstrapped |-> TRUE]
    ELSE IF last_sha = current_sha
    THEN [candidates |-> <<>>, current_sha |-> current_sha, should_update_sha |-> FALSE,
          bootstrapped |-> FALSE]
    ELSE [candidates |-> GithubCandidates(get_commit_diff(current_sha - 1, current_sha)),
          current_sha |-> current_sha, should_update_sha |-> TRUE,
          bootstrapped |-> FALSE]

\* main._fetch_github_candidates when its requests succeed.
_fetch_github_candidates(last_sha) ==
    LET current_sha == get_latest_commit_sha IN
    IF last_sha = NoSha
    THEN [candidates |-> <<>>, current_sha |-> current_sha, should_update_sha |-> TRUE,
          bootstrapped |-> TRUE]
    ELSE IF last_sha = current_sha
    THEN [candidates |-> <<>>, current_sha |-> current_sha, should_update_sha |-> FALSE,
          bootstrapped |-> FALSE]
    ELSE [candidates |-> GithubCandidates(get_commit_diff(last_sha, current_sha)),
          current_sha |-> current_sha, should_update_sha |-> TRUE,
          bootstrapped |-> FALSE]

\* main.py:466-467: run_once calls db.get_state when the captured recipient id
\* is to be used and none is configured; Database has no such method.
PsidLookupRaises(st) ==
    /\ st.facebook_auto_use_captured_psid
    /\ st.facebook_recipient_psid = NONE
    /\ "get_state" \notin DatabaseMethods

\* The identifiers a fresh Settings() object holds.
ConfiguredIds(st) == [base_id |-> st.airtable_base_id, table_id |-> st.airtable_table_id]

\* AirtableClient.parse_identifiers_from_shared_url: the app.. and tbl.. parts
\* of the URL (NONE where the pattern does not match).
parse_identifiers_from_shared_url(url) ==
    IF url = "airtable.com/appX/tblY/viwZ"
    THEN [base_id |-> "appX", table_id |-> "tblY"]
    ELSE [base_id |-> NONE, table_id |-> NONE]

\* main._resolve_airtable_identifiers: the values of settings.airtable_base_id
\* and settings.airtable_table_id after the call.
_resolve_airtable_identifiers(st, ids) ==
    IF (ids.base_id = NONE \/ ids.table_id = NONE) /\ st.airtable_shared_view_url # NONE
    THEN LET parsed == parse_identifiers_from_shared_url(st.airtable_shared_view_url)
         IN  [base_id |-> IF parsed.base_id # NONE /\ ids.base_id = NONE
                          THEN parsed.base_id ELSE ids.base_id,
              table_id |-> IF parsed.table_id # NONE /\ ids.table_id = NONE
                           THEN parsed.table_id ELSE ids.table_id]
    ELSE ids

\* main._fetch_airtable_candidates, 332-338: the checks that raise ValueError
\* before any request.
AirtableConfigRaises(st, ids) ==
    st.airtable_pat = NONE \/ ids.base_id = NONE \/ ids.table_id = NONE

\* main._fetch_airtable_candidates raises: a configuration check fails or the
\* listing request fails.
AirtableFetchRaises(st, net) ==
    \/ AirtableConfigRaises(st, _resolve_airtable_identifiers(st, ConfiguredIds(st)))
    \/ net = "error"

(***************************************************************************)
(* The shared locations the parts of _run_from_both touch while the two    *)
(* fetch tasks run (392-414)                                               *)
(***************************************************************************)
\* What the persistent store consists of.
StoreLocations == {"state.last_commit_sha", "processed_jobs"}

Access(task, mode, locs) == { [task |-> task, mode |-> mode, loc |-> l] : l \in locs }

\* 393: the main flow reads the checkpoint before it submits the tasks.
MainAccesses == Access("main", "read", {"state.last_commit_sha"})

\* _fetch_github_candidates as it would be if the task stored the bootstrap
\* checkpoint itself.
GithubTaskAccesses_bootstrap_in_task ==
    Access("github", "read",
           {"settings.github_token", "settings.github_owner", "settings.github_repo",
            "settings.github_branch", "settings.github_target_file",
            "settings.request_timeout_seconds"})
    \cup Access("github", "write", {"state.last_commit_sha"})

\* _fetch_github_candidates (298-327) with GitHubClient: the settings it reads;
\* last_sha is an argument, the client and its session are its own.
GithubTaskAccesses ==
    Access("github", "read",
           {"settings.github_token", "settings.github_owner", "settings.github_repo",
            "settings.github_branch", "settings.github_target_file",
            "settings.request_timeout_seconds"})

\* _fetch_airtable_candidates, 331-338: _resolve_airtable_identifiers reads the
\* shared-view URL and the two identifiers and may assign the identifiers.
AirtableResolveAccesses(st, ids) ==
    Access("airtable", "read",
           {"settings.airtable_shared_view_url", "settings.airtable_base_id",
            "settings.airtable_table_id", "settings.airtable_pat"})
    \cup Access("airtable", "write",
                (IF _resolve_airtable_identifiers(st, ids).base_id # ids.base_id
                 THEN {"settings.airtable_base_id"} ELSE {})
                \cup (IF _resolve_airtable_identifiers(st, ids).table_id # ids.table_id
                      THEN {"settings.airtable_table_id"} ELSE {}))

\* _fetch_airtable_candidates, 340-351, with AirtableClient.list_records and
\* _build_airtable_candidate.
AirtableListAccesses ==
    Access("airtable", "read",
           {"settings.airtable_pat", "settings.airtable_base_id", "settings.airtable_table_id",
            "settings.airtable_view", "settings.request_timeout_seconds",
            "settings.airtable_apply_field", "settings.airtable_company_field",
            "settings.airtable_role_field", "settings.airtable_date_field",
            "settings.airtable_location_field"})

(***************************************************************************)
(* Initial state and the steps of one cycle                                *)
(***************************************************************************)
\* No call of a network client is under way.
RetryIdle ==
    /\ op = "none"
    /\ attempt = 0
    /\ responses = <<>>
    /\ sleeps = <<>>
    /\ status = "idle"
    /\ last_error = NONE

\* No URL is being normalized.
UrlIdle ==
    /\ raw_url = <<>>
    /\ other_url = <<>>
    /\ url_pc = "none"
    /\ normalized = NONE
    /\ other_normalized = NONE
    /\ renormalized = NONE

\* _is_valid_apply_link is not being called.
LinkIdle ==
    /\ link_url = <<>>
    /\ link_pc = "none"
    /\ link_valid = FALSE

\* extract_apply_link is not being called.
ExtractIdle ==
    /\ row_anchors = <<>>
    /\ raw_html_string = <<>>
    /\ extract_pc = "none"
    /\ apply_link = NONE

\* reconstruct_added_rows is not being called.
RowsIdle ==
    /\ added_lines = <<>>
    /\ rows_pc = "none"
    /\ primary_rows = <<>>
    /\ reconstructed = <<>>
    /\ row_candidates = <<>>
    /\ row_processed = <<>>

\* A clock reading: a UTC calendar date and an hour of the day.
NoInstant == [year |-> 1, month |-> 1, day |-> 1, hour |-> 0]

\* estimate_posted_date_from_age is not being called.
DateIdle ==
    /\ row_cells = <<>>
    /\ row_html = <<>>
    /\ age_token = NONE
    /\ now = NoInstant
    /\ date_pc = "none"
    /\ posted_date = NONE

\* get_commit_diff is not being called on a compare result.
DiffIdle ==
    /\ doc_edit = <<>>
    /\ compare_files = <<>>
    /\ diff_pc = "none"
    /\ diff_result = <<>>

TextIdle == DateIdle /\ DiffIdle

ParseIdle == UrlIdle /\ LinkIdle /\ ExtractIdle /\ RowsIdle /\ TextIdle

\* An empty database (Database.init_schema) and no process.
PollInit ==
    /\ settings \in SettingsSet
    /\ last_commit_sha = NoSha
    /\ processed_jobs = {}
    /\ commits = <<>>
    /\ records = <<>>
    /\ pc = "idle"
    /\ phase = "none"
    /\ queue = <<>>
    /\ github_result = NoResult
    /\ airtable_candidates = <<>>
    /\ github_error = FALSE
    /\ airtable_error = FALSE
    /\ exit_code = "none"
    /\ sha_at_start = NoSha
    /\ call = NoCall
    /\ llm_log = <<>>
    /\ jobs_at_start = {}
    /\ relisted = FALSE
    /\ classified_before = {}
    /\ returned_shas = {}
    /\ airtable_ids = ConfiguredIds(settings)
    /\ github_task = "none"
    /\ airtable_task = "none"
    /\ accesses = {}
    /\ fetch_requests = {}

Init == PollInit /\ RetryIdle /\ ParseIdle

\* The start of run_once: a cycle starts only when no other is running.
BeginCycle ==
    /\ pc = "idle"
    /\ sha_at_start' = last_commit_sha
    /\ jobs_at_start' = processed_jobs
    /\ UNCHANGED <<call, llm_log, relisted, classified_before, retry_vars, parse_vars>>

\* run_once returns code.
Return(code) ==
    /\ pc' = "returned"
    /\ exit_code' = code

\* run_once, 459-470 and 482-484: the recipient-id lookup raises, the except
\* clause returns 1 before any source is asked.
RunOnceSetupFails ==
    /\ BeginCycle
    /\ PsidLookupRaises(settings)
    /\ Return("1")
    /\ UNCHANGED <<settings, returned_shas, commits, records, last_commit_sha, processed_jobs, phase, queue,
                   github_result, airtable_candidates, github_error, airtable_error,
                   airtable_ids, github_task, airtable_task, accesses, fetch_requests>>

\* run_once, 473-484: SOURCE_TYPE selects no mode, ValueError is raised and
\* the except clause returns 1.
RunOnceBadSource ==
    /\ BeginCycle
    /\ ~PsidLookupRaises(settings)
    /\ settings.source_type \notin SourceTypes
    /\ Return("1")
    /\ UNCHANGED <<settings, returned_shas, commits, records, last_commit_sha, processed_jobs, phase, queue,
                   github_result, airtable_candidates, github_error, airtable_error,
                   airtable_ids, github_task, airtable_task, accesses, fetch_requests>>

\* RunFromGithub as it would be if the checkpoint were written as soon as the
\* diff is fetched, before the batch is processed.
RunFromGithub_checkpoint_first ==
    /\ BeginCycle
    /\ ~PsidLookupRaises(settings)
    /\ settings.source_type = "github"
    /\ LET result == _fetch_github_candidates(last_commit_sha)
       IN  /\ github_error' = FALSE
           /\ github_result' = result
           /\ queue' = result.candidates
           /\ phase' = "github"
           /\ last_commit_sha' = result.current_sha
           /\ IF result.bootstrapped \/ ~result.should_update_sha
              THEN Return("0")
              ELSE /\ pc' = "process"
                   /\ exit_code' = "running"
    /\ fetch_requests' = {"github"}
    /\ returned_shas' = IF github_error' THEN returned_shas
                        ELSE returned_shas \cup {github_result'.current_sha}
    /\ UNCHANGED <<settings, commits, records, processed_jobs, airtable_candidates,
                   airtable_error, airtable_ids, github_task, airtable_task, accesses>>

\* run_once -> _run_from_github, up to the first candidate: the fetch, the
\* bootstrap return and the up-to-date return.
RunFromGithub ==
    /\ BeginCycle
    /\ ~PsidLookupRaises(settings)
    /\ settings.source_type = "github"
    /\ \E net \in {"ok", "error"} :
         LET result == IF net = "error" THEN NoResult
                       ELSE _fetch_github_candidates(last_commit_sha)
         IN  /\ github_error' = (net = "error")
             /\ github_result' = result
             /\ queue' = result.candidates
             /\ phase' = "github"
             /\ IF net = "error"
                THEN /\ Return("1")
                     /\ UNCHANGED last_commit_sha
                ELSE IF result.bootstrapped /\ result.current_sha # NoSha
                THEN /\ last_commit_sha' = result.current_sha
                     /\ Return("0")
                ELSE IF ~result.should_update_sha
                THEN /\ Return("0")
                     /\ UNCHANGED last_commit_sha
                ELSE /\ pc' = "process"
                     /\ exit_code' = "running"
                     /\ UNCHANGED last_commit_sha
    /\ fetch_requests' = {"github"}
    /\ returned_shas' = IF github_error' THEN returned_shas
                        ELSE returned_shas \cup {github_result'.current_sha}
    /\ UNCHANGED <<settings, commits, records, processed_jobs, airtable_candidates,
                   airtable_error, airtable_ids, github_task, airtable_task, accesses>>

\* run_once -> _run_from_airtable, up to the first candidate.
RunFromAirtable ==
    /\ BeginCycle
    /\ ~PsidLookupRaises(settings)
    /\ settings.source_type = "airtable"
    /\ airtable_ids' = _resolve_airtable_identifiers(settings, airtable_ids)
    /\ \E net \in {"ok", "error"} :
         LET cands == IF AirtableFetchRaises(settings, net) THEN <<>>
                      ELSE AirtableCandidates(records)
         IN  /\ airtable_error' = AirtableFetchRaises(settings, net)
             /\ airtable_candidates' = cands
             /\ queue' = cands
             /\ phase' = "airtable"
             /\ IF AirtableFetchRaises(settings, net)
                THEN Return("1")
                ELSE /\ pc' = "process"
                     /\ exit_code' = "running"
    /\ fetch_requests' = IF AirtableConfigRaises(settings, airtable_ids') THEN {}
                          ELSE {"airtable"}
    /\ UNCHANGED <<settings, returned_shas, commits, records, last_commit_sha, processed_jobs,
                   github_result, github_error, github_task, airtable_task, accesses>>

\* run_once -> _run_from_both, 393-402: the checkpoint is read and the two
\* fetch tasks are submitted to the executor.
RunFromBoth ==
    /\ BeginCycle
    /\ ~PsidLookupRaises(settings)
    /\ settings.source_type = "both"
    /\ pc' = "fetch"
    /\ exit_code' = "running"
    /\ phase' = "fetch"
    /\ github_task' = "submitted"
    /\ airtable_task' = "submitted"
    /\ accesses' = MainAccesses
    /\ UNCHANGED <<settings, returned_shas, commits, records, last_commit_sha, processed_jobs, queue,
                   github_result, airtable_candidates, github_error, airtable_error,
                   airtable_ids, fetch_requests>>

\* What a step of a fetch task leaves alone: the store, the sources and the
\* main flow's position.
FetchTaskFrame ==
    UNCHANGED <<settings, classified_before, commits, records, last_commit_sha, processed_jobs, pc, phase, queue,
                exit_code, sha_at_start, call, llm_log, jobs_at_start, relisted, retry_vars, parse_vars>>

\* The task of _fetch_github_candidates(settings, last_sha): it returns a
\* GithubFetchResult or raises; 405-408 store which.
GithubTask ==
    /\ pc = "fetch"
    /\ github_task = "submitted"
    /\ \E net \in {"ok", "error"} :
         /\ github_task' = IF net = "error" THEN "raised" ELSE "returned"
         /\ github_error' = (net = "error")
         /\ github_result' = IF net = "error" THEN NoResult
                             ELSE _fetch_github_candidates(sha_at_start)
    /\ accesses' = accesses \cup GithubTaskAccesses
    /\ fetch_requests' = fetch_requests \cup {"github"}
    /\ returned_shas' = IF github_error' THEN returned_shas
                        ELSE returned_shas \cup {github_result'.current_sha}
    /\ FetchTaskFrame
    /\ UNCHANGED <<airtable_candidates, airtable_error, airtable_ids, airtable_task>>

\* The task of _fetch_airtable_candidates, 331-338: the identifiers are
\* resolved and the configuration is checked.
AirtableTaskResolve ==
    /\ pc = "fetch"
    /\ airtable_task = "submitted"
    /\ airtable_ids' = _resolve_airtable_identifiers(settings, airtable_ids)
    /\ accesses' = accesses \cup AirtableResolveAccesses(settings, airtable_ids)
    /\ IF AirtableConfigRaises(settings, airtable_ids')
       THEN /\ airtable_task' = "raised"
            /\ airtable_error' = TRUE
       ELSE /\ airtable_task' = "listing"
            /\ UNCHANGED airtable_error
    /\ FetchTaskFrame
    /\ UNCHANGED <<returned_shas, airtable_candidates, github_result, github_error, github_task,
                   fetch_requests>>

\* The task of _fetch_airtable_candidates, 340-351: the records are listed and
\* turned into candidates; 410-414 store the list or the exception.
AirtableTaskList ==
    /\ pc = "fetch"
    /\ airtable_task = "listing"
    /\ \E net \in {"ok", "error"} :
         /\ airtable_task' = IF net = "error" THEN "raised" ELSE "returned"
         /\ airtable_error' = (net = "error")
         /\ airtable_candidates' = IF net = "error" THEN <<>>
                                   ELSE AirtableCandidates(records)
    /\ accesses' = accesses \cup AirtableListAccesses
    /\ fetch_requests' = fetch_requests \cup {"airtable"}
    /\ FetchTaskFrame
    /\ UNCHANGED <<returned_shas, airtable_ids, github_result, github_error, github_task>>

\* Both tasks are over.
FetchTasksOver ==
    /\ github_task \in {"returned", "raised"}
    /\ airtable_task \in {"returned", "raised"}

\* _run_from_both, 404-428: both futures have given their result or their
\* exception, the executor is left and the processing starts with the batch
\* of the revision source (if it has a result).
JoinBoth ==
    /\ pc = "fetch"
    /\ FetchTasksOver
    /\ pc' = "process"
    /\ phase' = IF github_error THEN "airtable" ELSE "github"
    /\ queue' = IF github_error THEN airtable_candidates ELSE github_result.candidates
    /\ UNCHANGED <<settings, returned_shas, commits, records, last_commit_sha, processed_jobs, github_result,
                   airtable_candidates, github_error, airtable_error, exit_code, sha_at_start,
                   call, llm_log, jobs_at_start, relisted, classified_before, airtable_ids,
                   github_task,
                   airtable_task, accesses, fetch_requests, retry_vars, parse_vars>>

\* What a step of the main flow inside a batch leaves alone besides the
\* variables of the cycle.
BatchFrame ==
    UNCHANGED <<settings, classified_before, returned_shas, commits, records, github_result, airtable_candidates, github_error,
                airtable_error, sha_at_start, jobs_at_start, relisted, airtable_ids,
                github_task, airtable_task, accesses, fetch_requests, retry_vars, parse_vars>>

\* One iteration of the loop of _process_candidates: the whole call of
\* _process_candidate for the next candidate.  An exception leaving it leaves
\* the loop and the source mode function, and run_once returns 1 (482-484).
ProcessCandidate ==
    /\ pc = "process"
    /\ queue # <<>>
    /\ \E llm \in LLMOutcomes, da \in ChannelAnswers, fa \in ChannelAnswers :
         LET r == _process_candidate(processed_jobs, Head(queue), settings, llm, da, fa) IN
         /\ processed_jobs' = r.jobs
         /\ call' = r.log
         /\ llm_log' = IF r.log.classified THEN Append(llm_log, r.log.link_hash)
                        ELSE llm_log
         /\ IF r.raised # NONE
            THEN /\ Return("1")
                 /\ UNCHANGED queue
            ELSE /\ queue' = Tail(queue)
                 /\ UNCHANGED <<pc, exit_code>>
    /\ UNCHANGED <<last_commit_sha, phase>>
    /\ BatchFrame

\* FinishGithub as it would be if the checkpoint moved one revision forward
\* from where the diff started, whatever the revision that was fetched.
FinishGithub_one_revision ==
    /\ pc = "process"
    /\ settings.source_type = "github"
    /\ queue = <<>>
    /\ last_commit_sha' = sha_at_start + 1
    /\ Return("0")
    /\ UNCHANGED <<processed_jobs, phase, queue, call, llm_log>>
    /\ BatchFrame

\* _run_from_github, 373-376: the batch is done, the checkpoint is written.
FinishGithub ==
    /\ pc = "process"
    /\ settings.source_type = "github"
    /\ queue = <<>>
    /\ last_commit_sha' = IF github_result.current_sha # NoSha
                           THEN github_result.current_sha ELSE last_commit_sha
    /\ Return("0")
    /\ UNCHANGED <<processed_jobs, phase, queue, call, llm_log>>
    /\ BatchFrame

\* _run_from_airtable, 388-389.
FinishAirtable ==
    /\ pc = "process"
    /\ settings.source_type = "airtable"
    /\ queue = <<>>
    /\ Return("0")
    /\ UNCHANGED <<last_commit_sha, processed_jobs, phase, queue, call, llm_log>>
    /\ BatchFrame

\* _run_from_both, 429-439: the revision source's batch is done; its checkpoint
\* is written and the record-store batch starts.
BothAfterGithub ==
    /\ pc = "process"
    /\ settings.source_type = "both"
    /\ phase = "github"
    /\ queue = <<>>
    /\ last_commit_sha' = IF github_result.should_update_sha
                              /\ github_result.current_sha # NoSha
                           THEN github_result.current_sha ELSE last_commit_sha
    /\ phase' = "airtable"
    /\ queue' = airtable_candidates
    /\ UNCHANGED <<processed_jobs, pc, exit_code, call, llm_log>>
    /\ BatchFrame

\* _run_from_both, 441-448.
FinishBoth ==
    /\ pc = "process"
    /\ settings.source_type = "both"
    /\ phase = "airtable"
    /\ queue = <<>>
    /\ IF github_error /\ airtable_error THEN Return("1") ELSE Return("0")
    /\ UNCHANGED <<last_commit_sha, processed_jobs, phase, queue, call, llm_log>>
    /\ BatchFrame

\* The process is killed inside a batch (no except clause, no return value).
Crash ==
    /\ pc = "process"
    /\ Return("killed")
    /\ UNCHANGED <<last_commit_sha, processed_jobs, phase, queue, call, llm_log>>
    /\ BatchFrame

\* The process of the cycle ends (SystemExit, main.py:490, or the kill is
\* complete); its local values and what was observed of it go with it.
Exit ==
    /\ pc = "returned"
    /\ pc' = "idle"
    /\ exit_code' = "none"
    /\ phase' = "none"
    /\ queue' = <<>>
    /\ github_result' = NoResult
    /\ airtable_candidates' = <<>>
    /\ github_error' = FALSE
    /\ airtable_error' = FALSE
    /\ sha_at_start' = NoSha
    /\ call' = NoCall
    /\ llm_log' = <<>>
    /\ classified_before' = classified_before \cup { llm_log[i] : i \in 1..Len(llm_log) }
    /\ jobs_at_start' = {}
    /\ relisted' = (/\ settings.source_type = "airtable"
                    /\ phase = "airtable"
                    /\ ~airtable_error
                    /\ exit_code \in {"0", "1"})
    /\ airtable_ids' = ConfiguredIds(settings)
    /\ github_task' = "none"
    /\ airtable_task' = "none"
    /\ accesses' = {}
    /\ fetch_requests' = {}
    /\ UNCHANGED <<settings, returned_shas, commits, records, last_commit_sha, processed_jobs, retry_vars, parse_vars>>

\* What the environment leaves alone.
EnvFrame ==
    UNCHANGED <<settings, classified_before, returned_shas, last_commit_sha, processed_jobs, pc, phase, queue, github_result,
                airtable_candidates, github_error, airtable_error, exit_code, sha_at_start,
                call, llm_log, jobs_at_start, airtable_ids, github_task, airtable_task,
                accesses, fetch_requests, retry_vars, parse_vars>>

\* Environment, between cycles: a commit adds one row to the tracked file.
NewCommit ==
    /\ pc = "idle"
    /\ settings.source_type # "airtable"
    /\ Len(commits) < MaxRev - 1
    /\ Len(commits) + Len(records) < MaxItems
    /\ \E row \in RowSet : commits' = Append(commits, row)
    /\ UNCHANGED <<records, relisted>>
    /\ EnvFrame

\* Environment, between cycles: the record list of the record store changes.
AirtableEdit ==
    /\ pc = "idle"
    /\ settings.source_type # "github"
    /\ \E recs \in SeqUpTo(RecordSet, MaxRecords) :
         /\ recs # records
         /\ Len(commits) + Len(recs) <= MaxItems
         /\ records' = recs
    /\ relisted' = FALSE
    /\ UNCHANGED commits
    /\ EnvFrame

Next ==
    \/ RunOnceSetupFails
    \/ RunOnceBadSource
    \/ RunFromGithub
    \/ RunFromAirtable
    \/ RunFromBoth
    \/ GithubTask
    \/ AirtableTaskResolve
    \/ AirtableTaskList
    \/ JoinBoth
    \/ ProcessCandidate
    \/ FinishGithub
    \/ FinishAirtable
    \/ BothAfterGithub
    \/ FinishBoth
    \/ Crash
    \/ Exit
    \/ NewCommit
    \/ AirtableEdit

Spec == Init /\ [][Next]_vars

(***************************************************************************)
(* Repeated invocation in revision-source mode: the scheduler starts       *)
(* run_once again and again, each started process runs to its return       *)
(***************************************************************************)
LiveInit == Init /\ settings.source_type = "github"

LiveNext ==
    \/ RunOnceSetupFails
    \/ RunFromGithub
    \/ ProcessCandidate
    \/ FinishGithub
    \/ Exit
    \/ NewCommit

LiveSpec ==
    /\ LiveInit
    /\ [][LiveNext]_vars
    /\ WF_vars(RunOnceSetupFails)
    /\ WF_vars(RunFromGithub)
    /\ WF_vars(ProcessCandidate)
    /\ WF_vars(FinishGithub)
    /\ WF_vars(Exit)

(***************************************************************************)
(* The retry loops of the network clients:                                 *)
(*   GitHubClient._request_json, AirtableClient._request_json,             *)
(*   Notifier.send_discord, Notifier._send_facebook_page_feed,             *)
(*   Notifier._send_facebook_dm, LLMEngine.analyze_job                     *)
(***************************************************************************)
Operations == {"github", "airtable", "discord", "facebook_feed", "facebook_dm", "llm"}

\* `retries` of each loop (github_client.py:127, airtable_client.py:80,
\* notifier.py:50, 113, 175, llm_engine.py:89).
Retries(o) == IF o = "llm" THEN 2 ELSE 3

\* What one request of an operation can meet.
Responses(o) ==
    IF o = "llm"
    THEN {"APIConnectionError", "APITimeoutError", "RateLimitError", "InternalServerError",
          "AuthenticationError", "invalid_output", "ok"}
    ELSE {"Timeout", "ConnectionError", "http_429", "http_503", "http_400", "http_200"}
         \cup (IF o \in {"github", "airtable"} THEN {"http_200_invalid_json"} ELSE {})
         \cup (IF o \in {"facebook_feed", "facebook_dm"} THEN {"http_400_is_transient"} ELSE {})

\* The failures that are transient: timeout, connection error, 429 / 5xx.
Transient ==
    {"Timeout", "ConnectionError", "http_429", "http_503",
     "APIConnectionError", "APITimeoutError", "RateLimitError", "InternalServerError"}

\* The failures that are not: a 4xx status other than 429, a body that is no
\* JSON, a rejected credential, a classifier output that fails validation.
NonTransient == {"http_400", "http_200_invalid_json", "AuthenticationError", "invalid_output"}

\* The body of the try statement of one iteration, with its except clauses:
\* the function returns, an except clause of the loop catches the exception
\* (kind "caught"), or the exception leaves the function (kind "uncaught").
RequestOutcome(o, resp) ==
    IF o = "llm"
    THEN \* llm_engine.py:93-117
         IF resp = "ok" THEN [kind |-> "return", error |-> NONE]
         ELSE IF resp \in {"APIConnectionError", "APITimeoutError", "RateLimitError",
                           "InternalServerError"}
         THEN [kind |-> "caught", error |-> resp]
         ELSE IF resp = "invalid_output" THEN [kind |-> "uncaught", error |-> "ValueError"]
         ELSE [kind |-> "uncaught", error |-> resp]
    ELSE IF resp \in {"Timeout", "ConnectionError"} THEN [kind |-> "caught", error |-> resp]
    ELSE IF resp \in {"http_429", "http_503"} THEN [kind |-> "caught", error |-> "HTTPError"]
    ELSE IF o \in {"github", "airtable"}
    THEN \* github_client.py:144-146, airtable_client.py:97-99: raise_for_status()
         \* raises requests.HTTPError, which the except clause of the loop names
         IF resp = "http_400" THEN [kind |-> "caught", error |-> "HTTPError"]
         ELSE IF resp = "http_200_invalid_json"
         THEN [kind |-> "uncaught", error |-> "JSONDecodeError"]
         ELSE [kind |-> "return", error |-> NONE]
    ELSE \* notifier.py:64-69, 134-151, 198-223: RuntimeError is raised inside the
         \* try and named by the except clause of the loop
         IF resp = "http_400" THEN [kind |-> "caught", error |-> "RuntimeError"]
         ELSE IF resp = "http_400_is_transient" THEN [kind |-> "caught", error |-> "HTTPError"]
         ELSE [kind |-> "return", error |-> NONE]

\* LastAttempt as it would be without the break before the sleep.
LastAttempt_no_break(o, n) == FALSE

\* `if attempt == retries - 1: break`
LastAttempt(o, n) == n = Retries(o) - 1

\* A caller calls one of the operations.
RetryCall ==
    /\ status = "idle"
    /\ \E o \in Operations : op' = o
    /\ status' = "running"
    /\ attempt' = 0
    /\ responses' = <<>>
    /\ sleeps' = <<>>
    /\ last_error' = NONE
    /\ UNCHANGED <<poll_vars, parse_vars>>

\* One iteration of `for attempt in range(retries)`, and what follows the
\* loop when it is the last.
RetryAttempt ==
    /\ status = "running"
    /\ \E resp \in Responses(op) :
         LET out == RequestOutcome(op, resp) IN
         /\ responses' = Append(responses, resp)
         /\ IF out.kind = "return"
            THEN /\ status' = "returned"
                 /\ UNCHANGED <<attempt, sleeps, last_error>>
            ELSE IF out.kind = "uncaught"
            THEN /\ status' = "raised"
                 /\ last_error' = out.error
                 /\ UNCHANGED <<attempt, sleeps>>
            ELSE /\ last_error' = out.error
                 /\ IF LastAttempt(op, attempt)
                    THEN /\ status' = "raised"
                         /\ UNCHANGED <<attempt, sleeps>>
                    ELSE /\ sleeps' = Append(sleeps, 2^attempt)
                         /\ attempt' = attempt + 1
                         /\ status' = IF attempt + 1 < Retries(op) THEN "running"
                                      ELSE "raised"
    /\ UNCHANGED <<op, poll_vars, parse_vars>>

\* The call is over; the caller goes on.
RetryOver ==
    /\ status \in {"returned", "raised"}
    /\ op' = "none"
    /\ status' = "idle"
    /\ attempt' = 0
    /\ responses' = <<>>
    /\ sleeps' = <<>>
    /\ last_error' = NONE
    /\ UNCHANGED <<poll_vars, parse_vars>>

RetryInit ==
    /\ PollInit
    /\ settings = CHOOSE st \in SettingsSet : TRUE
    /\ RetryIdle
    /\ ParseIdle

RetryNext == RetryCall \/ RetryAttempt \/ RetryOver

RetrySpec == RetryInit /\ [][RetryNext]_vars

(***************************************************************************)
(* Texts.  A text (a Python str) is a sequence of tokens; a token stands   *)
(* for the characters it is written with and is never split: the           *)
(* delimiters the parsers look for (: / ? # & = [ ] ( ) and the space) are *)
(* tokens of their own, every other token is a run of other characters     *)
(***************************************************************************)
Whitespace == {" "}

\* Tokens made of letters, digits, "+", "-" and "." only (urllib.parse.scheme_chars).
SchemeTokens ==
    {"http", "HTTP", "https", "ftp", "h.example", "H.Example", "l.example", "jobs", "id", "1"}

\* str.find from position i: the position of the first token of text that is
\* in toks, 0 when there is none.
RECURSIVE FindFrom(_, _, _)
FindFrom(text, toks, i) ==
    IF i > Len(text) THEN 0
    ELSE IF text[i] \in toks THEN i
    ELSE FindFrom(text, toks, i + 1)

Find(text, toks) == FindFrom(text, toks, 1)

\* text[:i-1] and text[i+1:] around position i.
Before(text, i) == SubSeq(text, 1, i - 1)
After(text, i) == SubSeq(text, i + 1, Len(text))

\* str.lstrip / str.rstrip / str.strip.
RECURSIVE lstrip(_, _)
lstrip(text, toks) ==
    IF text # <<>> /\ Head(text) \in toks THEN lstrip(Tail(text), toks) ELSE text

RECURSIVE rstrip(_, _)
rstrip(text, toks) ==
    IF text # <<>> /\ text[Len(text)] \in toks
    THEN rstrip(Before(text, Len(text)), toks)
    ELSE text

strip(text) == rstrip(lstrip(text, Whitespace), Whitespace)

\* str.lower on one token and on a text.
LowerToken(tok) ==
    CASE tok = "HTTP" -> "http"
      [] tok = "H.Example" -> "h.example"
      [] tok = "Ref" -> "ref"
      [] tok = "UTM_x" -> "utm_x"
      [] tok = "GitHub.com" -> "github.com"
      [] tok = "Logo" -> "logo"
      [] tok = ".PNG" -> ".png"
      [] tok = "Apply" -> "apply"
      [] tok = "<TR>" -> "<tr>"
      [] tok = "</TR>" -> "</tr>"
      [] tok = "<TD>" -> "<td>"
      [] tok = "</TD>" -> "</td>"
      [] tok = "H" -> "h"
      [] tok = "D" -> "d"
      [] tok = "W" -> "w"
      [] tok = "M" -> "m"
      [] tok = "O" -> "o"
      [] OTHER -> tok

lower(text) == [i \in 1..Len(text) |-> LowerToken(text[i])]

\* str.split(sep): the pieces of text between the sep tokens.
RECURSIVE split(_, _)
split(text, sep) ==
    LET i == Find(text, {sep})
    IN  IF i = 0 THEN <<text>>
        ELSE <<Before(text, i)>> \o split(After(text, i), sep)

\* sep.join(pieces).
RECURSIVE join(_, _)
join(pieces, sep) ==
    IF pieces = <<>> THEN <<>>
    ELSE IF Len(pieces) = 1 THEN pieces[1]
    ELSE pieces[1] \o <<sep>> \o join(Tail(pieces), sep)

(***************************************************************************)
(* html.unescape, urllib.parse.urlsplit / parse_qsl / urlencode /          *)
(* urlunsplit, as parsing_utils._normalize_candidate_url uses them         *)
(***************************************************************************)
\* html.unescape on "&" followed by tok: what replaces both when tok starts
\* with a named character reference of html.entities.html5, the trailing ";"
\* being optional for the legacy names ("amp", "reg", ...); <<>> when tok
\* starts with none.
CharRef(tok) ==
    CASE tok = "amp;" -> <<"&">>
      [] tok = "#100;" -> <<"d">>
      [] tok = "amp%3B" -> <<"&", "%3B">>
      [] tok = "region" -> <<"(R)", "ion">>
      [] OTHER -> <<>>

\* html.unescape: one pass from left to right; what a reference is replaced
\* with is not scanned again.
RECURSIVE html_unescape(_)
html_unescape(text) ==
    IF text = <<>> THEN <<>>
    ELSE IF Head(text) = "&" /\ Len(text) >= 2 /\ CharRef(text[2]) # <<>>
    THEN CharRef(text[2]) \o html_unescape(SubSeq(text, 3, Len(text)))
    ELSE <<Head(text)>> \o html_unescape(Tail(text))

\* `https?://` (re.IGNORECASE) matches at position i.
HttpAt(text, i) ==
    /\ i + 3 <= Len(text)
    /\ LowerToken(text[i]) \in {"http", "https"}
    /\ text[i + 1] = ":"
    /\ text[i + 2] = "/"
    /\ text[i + 3] = "/"

\* MARKDOWN_URL_REGEX matches with its "[" at position i: group(2), or <<>>
\* when it does not match there.
MarkdownMatchAt(text, i) ==
    LET close == FindFrom(text, {"]"}, i + 1)
        paren == FindFrom(text, {")"}, close + 2)
    IN  IF /\ text[i] = "["
           /\ HttpAt(text, i + 1)
           /\ close > i + 5
           /\ close + 1 <= Len(text)
           /\ text[close + 1] = "("
           /\ HttpAt(text, close + 2)
           /\ paren > close + 6
        THEN SubSeq(text, close + 2, paren - 1)
        ELSE <<>>

\* 159-161: MARKDOWN_URL_REGEX.search(text); the text becomes group(2) of the
\* leftmost match.
markdown_url(text) ==
    LET hits == {i \in 1..Len(text) : MarkdownMatchAt(text, i) # <<>>}
    IN  IF hits = {} THEN text
        ELSE MarkdownMatchAt(text, CHOOSE i \in hits : \A j \in hits : i <= j)

\* 163-164: an enclosing bracket pair is removed.
strip_brackets(text) ==
    IF text # <<>> /\ Head(text) = "[" /\ text[Len(text)] = "]"
    THEN strip(SubSeq(text, 2, Len(text) - 1))
    ELSE text

\* urllib.parse.urlsplit.
urlsplit(url) ==
    LET u == lstrip(url, Whitespace)
        colon == Find(u, {":"})
        has_scheme == /\ colon > 1
                      /\ u[1] \in SchemeTokens \ {"1"}
                      /\ \A j \in 1..(colon - 1) : u[j] \in SchemeTokens
        scheme == IF has_scheme THEN lower(Before(u, colon)) ELSE <<>>
        rest == IF has_scheme THEN After(u, colon) ELSE u
        has_netloc == Len(rest) >= 2 /\ rest[1] = "/" /\ rest[2] = "/"
        delim == FindFrom(rest, {"/", "?", "#"}, 3)
        netloc == IF ~has_netloc THEN <<>>
                  ELSE IF delim = 0 THEN SubSeq(rest, 3, Len(rest))
                  ELSE SubSeq(rest, 3, delim - 1)
        rest2 == IF ~has_netloc THEN rest
                 ELSE IF delim = 0 THEN <<>>
                 ELSE SubSeq(rest, delim, Len(rest))
        hash == Find(rest2, {"#"})
        fragment == IF hash = 0 THEN <<>> ELSE After(rest2, hash)
        rest3 == IF hash = 0 THEN rest2 ELSE Before(rest2, hash)
        qmark == Find(rest3, {"?"})
    IN  [scheme |-> scheme,
         netloc |-> netloc,
         path |-> IF qmark = 0 THEN rest3 ELSE Before(rest3, qmark),
         query |-> IF qmark = 0 THEN <<>> ELSE After(rest3, qmark),
         fragment |-> fragment]

\* urllib.parse.unquote after replace('+', ' '), and quote_plus, on one token.
UnquoteToken(tok) ==
    CASE tok = "+" -> " "
      [] tok = "%20" -> " "
      [] tok = "%3B" -> ";"
      [] tok = "%3D" -> "="
      [] tok = "%C2%AE" -> "(R)"
      [] tok = "amp%3B" -> "amp;"
      [] OTHER -> tok

QuoteToken(tok) ==
    CASE tok = " " -> "+"
      [] tok = ";" -> "%3B"
      [] tok = "=" -> "%3D"
      [] tok = "(R)" -> "%C2%AE"
      [] tok = "amp;" -> "amp%3B"
      [] OTHER -> tok

unquote_plus(text) == [i \in 1..Len(text) |-> UnquoteToken(text[i])]
quote_plus(text) == [i \in 1..Len(text) |-> QuoteToken(text[i])]

\* One name=value piece of a query string as parse_qsl reads it
\* (keep_blank_values=True: a piece without "=" has the value "").
ParseItem(piece) ==
    LET eq == Find(piece, {"="})
    IN  IF eq = 0 THEN <<unquote_plus(piece), <<>>>>
        ELSE <<unquote_plus(Before(piece, eq)), unquote_plus(After(piece, eq))>>

\* urllib.parse.parse_qsl(query, keep_blank_values=True): the (key, value)
\* pairs of the non-empty pieces between the "&", in order.
parse_qsl(query) ==
    LET pieces == IF query = <<>> THEN <<>> ELSE split(query, "&")
        kept == SelectSeq(pieces, LAMBDA piece : piece # <<>>)
    IN  [i \in 1..Len(kept) |-> ParseItem(kept[i])]

\* 172-176: the key is a tracking key.
TRACKING_QUERY_KEYS == {<<"fbclid">>, <<"gclid">>, <<"igshid">>, <<"ref">>, <<"source">>}

IsTrackingKey(key) ==
    \/ key # <<>> /\ LowerToken(key[1]) \in {"utm_x", "utm_"}
    \/ lower(key) \in TRACKING_QUERY_KEYS

\* urllib.parse.urlencode(items, doseq=True).
urlencode(items) ==
    join([i \in 1..Len(items) |-> quote_plus(items[i][1]) \o <<"=">> \o quote_plus(items[i][2])],
         "&")

\* urllib.parse.urlunsplit((scheme, netloc, path, query, "")) for a non-empty
\* scheme and netloc.
urlunsplit(scheme, netloc, path, query) ==
    scheme \o <<":", "/", "/">> \o netloc
        \o (IF path # <<>> /\ Head(path) # "/" THEN <<"/">> ELSE <<>>) \o path
        \o (IF query # <<>> THEN <<"?">> \o query ELSE <<>>)

\* parsing_utils._normalize_candidate_url on a text (NONE: it returns None).
normalize_candidate_url(raw) ==
    LET text == strip_brackets(markdown_url(html_unescape(strip(raw))))
        parsed == urlsplit(text)
        query_items == SelectSeq(parse_qsl(parsed.query), LAMBDA item : ~IsTrackingKey(item[1]))
        normalized_path == IF rstrip(parsed.path, {"/"}) # <<>> THEN rstrip(parsed.path, {"/"})
                           ELSE parsed.path
    IN  IF strip(raw) = <<>> THEN NONE
        ELSE IF lower(parsed.scheme) \notin {<<"http">>, <<"https">>} \/ parsed.netloc = <<>>
        THEN NONE
        ELSE urlunsplit(lower(parsed.scheme), lower(parsed.netloc), normalized_path,
                        urlencode(query_items))

(***************************************************************************)
(* The raw URLs _normalize_candidate_url is applied to: an origin, a path, *)
(* a query of at most MaxQuery name=value items, an optional fragment, and *)
(* what the URL is wrapped in                                              *)
(***************************************************************************)
Origins ==
    { <<"http", ":", "/", "/", "h.example">>,
      <<"HTTP", ":", "/", "/", "H.Example">>,
      <<"ftp", ":", "/", "/", "h.example">>,
      <<"http", ":", "/", "/">> }

Paths ==
    { <<>>, <<"/">>, <<"/", "jobs">>, <<"/", "jobs", "/">>, <<"/", "jobs", "/", "/">> }

\* name=value items; utm_x and Ref are tracking parameters.
PlainItems == { <<"id", "=", "1">>, <<"region", "=", "1">> }
TrackingItems == { <<"utm_x", "=", "1">>, <<"Ref", "=", "1">> }

\* What separates two items: "&" as it is, written as "&amp;" (an href
\* attribute in HTML), and escaped twice.
Separators == { <<"&">>, <<"&", "amp;">>, <<"&", "amp;", "amp;">> }

Fragments == { <<>>, <<"#", "f">> }

Wrappers == {"plain", "space", "brackets", "markdown"}

\* An item of a query with the separator written before it when it is not
\* the first.
QueryItems == [item : PlainItems \cup TrackingItems, sep : Separators]

Queries ==
    { q \in SeqUpTo(QueryItems, MaxQuery) : q # <<>> => q[1].sep = <<"&">> }

RECURSIVE RenderItems(_)
RenderItems(q) ==
    IF q = <<>> THEN <<>>
    ELSE IF Len(q) = 1 THEN q[1].item
    ELSE q[1].item \o q[2].sep \o RenderItems(Tail(q))

\* The text of a URL.
RenderUrl(origin, path, q, fragment, wrapper) ==
    LET url == origin \o path \o (IF q = <<>> THEN <<>> ELSE <<"?">> \o RenderItems(q))
                   \o fragment
    IN  CASE wrapper = "plain" -> url
          [] wrapper = "space" -> <<" ">> \o url
          [] wrapper = "brackets" -> <<"[">> \o url \o <<"]">>
          [] wrapper = "markdown" ->
                <<"[", "http", ":", "/", "/", "l.example", "]", "(">> \o url \o <<")">>

\* origin with the letter case of scheme and host changed.
OtherCase(origin) ==
    IF origin = <<"http", ":", "/", "/", "h.example">>
    THEN <<"HTTP", ":", "/", "/", "H.Example">>
    ELSE IF origin = <<"HTTP", ":", "/", "/", "H.Example">>
    THEN <<"http", ":", "/", "/", "h.example">>
    ELSE origin

\* q with one more item at position p (1: first).
InsertItem(q, p, it) == SubSeq(q, 1, p - 1) \o <<it>> \o SubSeq(q, p, Len(q))

\* The queries that differ from q by at most one more tracking parameter,
\* separated by "&" or "&amp;".
WithTracking(q) ==
    {q} \cup { InsertItem(q, p, [item |-> t, sep |-> <<"&">>]) :
                 p \in 1..(Len(q) + 1), t \in TrackingItems }

\* A raw URL, and a second one that differs from it at most by the case of
\* scheme and host and by one tracking parameter.
UrlInit ==
    /\ PollInit
    /\ settings = CHOOSE st \in SettingsSet : TRUE
    /\ RetryIdle
    /\ \E origin \in Origins, path \in Paths, q \in Queries, fragment \in Fragments,
          wrapper \in Wrappers :
         /\ raw_url = RenderUrl(origin, path, q, fragment, wrapper)
         /\ \E origin2 \in {origin, OtherCase(origin)}, q2 \in WithTracking(q) :
              other_url = RenderUrl(origin2, path, q2, fragment, wrapper)
    /\ url_pc = "raw"
    /\ normalized = NONE
    /\ other_normalized = NONE
    /\ renormalized = NONE
    /\ LinkIdle /\ ExtractIdle /\ RowsIdle /\ TextIdle

\* _normalize_candidate_url is called on each of the two raw URLs.
Normalize ==
    /\ url_pc = "raw"
    /\ normalized' = normalize_candidate_url(raw_url)
    /\ other_normalized' = normalize_candidate_url(other_url)
    /\ url_pc' = "normalized"
    /\ UNCHANGED <<raw_url, other_url, renormalized, poll_vars, retry_vars, link_vars,
                   extract_vars, rows_vars, text_vars>>

\* _normalize_candidate_url is called on its own result.
NormalizeAgain ==
    /\ url_pc = "normalized"
    /\ normalized # NONE
    /\ renormalized' = normalize_candidate_url(normalized)
    /\ url_pc' = "renormalized"
    /\ UNCHANGED <<raw_url, other_url, normalized, other_normalized, poll_vars, retry_vars,
                   link_vars, extract_vars, rows_vars, text_vars>>

UrlNext == Normalize \/ NormalizeAgain

UrlSpec == UrlInit /\ [][UrlNext]_vars

(***************************************************************************)
(* parsing_utils._is_valid_apply_link and the urls it is applied to        *)
(***************************************************************************)
\* `sub in text`, text.startswith(sub), text.endswith(sub).
Contains(text, sub) ==
    \E i \in 1..(Len(text) - Len(sub) + 1) : SubSeq(text, i, i + Len(sub) - 1) = sub

startswith(text, sub) ==
    Len(text) >= Len(sub) /\ SubSeq(text, 1, Len(sub)) = sub

endswith(text, sub) ==
    Len(text) >= Len(sub) /\ SubSeq(text, Len(text) - Len(sub) + 1, Len(text)) = sub

IMAGE_DOMAINS ==
    { <<"imgur.com">>, <<"i.", "imgur.com">>, <<"raw.", "githubusercontent.com">>,
      <<"user-images.", "githubusercontent.com">> }

IMAGE_EXTENSIONS ==
    { <<".png">>, <<".jpg">>, <<".jpeg">>, <<".gif">>, <<".svg">>, <<".webp">>, <<".ico">> }

_is_valid_apply_link(url) ==
    LET parsed == urlsplit(url)
        host == lower(parsed.netloc)
        path == lower(parsed.path)
    IN  IF \E image_domain \in IMAGE_DOMAINS : Contains(host, image_domain) THEN FALSE
        ELSE IF \E extension \in IMAGE_EXTENSIONS : endswith(path, extension) THEN FALSE
        ELSE IF Contains(path, <<"logo">>) \/ Contains(path, <<"icon">>) THEN FALSE
        ELSE IF endswith(host, <<"simplify.jobs">>) /\ startswith(path, <<"/", "c", "/">>)
        THEN FALSE
        ELSE IF Contains(host, <<"github.com">>) /\ ~Contains(path, <<"jobs">>) THEN FALSE
        ELSE TRUE

\* The hosts of the urls: image hosts, the code host, its subdomain and a
\* host whose name it begins (github.community), the job board and its
\* subdomain, and two other hosts.
LinkHosts ==
    { <<"h.example">>, <<"boards.", "greenhouse.io">>,
      <<"imgur.com">>, <<"i.", "imgur.com">>, <<"raw.", "githubusercontent.com">>,
      <<"user-images.", "githubusercontent.com">>,
      <<"github.com">>, <<"GitHub.com">>, <<"gist.", "github.com">>, <<"github.com", "munity">>,
      <<"simplify.jobs">>, <<"www.", "simplify.jobs">> }

\* The paths: none, "/", /apply, /jobs/1, /acme/repo, /c/acme, /c/acme/jobs,
\* /p/1, /img/a.png, /a.PNG, /logo/1, /Logo, /silicon/apply.
LinkPaths ==
    { <<>>, <<"/">>, <<"/", "apply">>, <<"/", "jobs", "/", "1">>, <<"/", "acme", "/", "repo">>,
      <<"/", "c", "/", "acme">>, <<"/", "c", "/", "acme", "/", "jobs">>, <<"/", "p", "/", "1">>,
      <<"/", "img", "/", "a", ".png">>, <<"/", "a", ".PNG">>, <<"/", "logo", "/", "1">>,
      <<"/", "Logo">>, <<"/", "sil", "icon", "/", "apply">> }

\* The queries: none, and ?f=logo.png.
LinkQueries == { <<>>, <<"?", "f", "=", "logo", ".png">> }

ValidInit ==
    /\ PollInit
    /\ settings = CHOOSE st \in SettingsSet : TRUE
    /\ RetryIdle
    /\ UrlIdle /\ ExtractIdle /\ RowsIdle /\ TextIdle
    /\ \E host \in LinkHosts, path \in LinkPaths, query \in LinkQueries :
         link_url = <<"https", ":", "/", "/">> \o host \o path \o query
    /\ link_pc = "url"
    /\ link_valid = FALSE

\* _is_valid_apply_link is called on the url.
IsValidApplyLink ==
    /\ link_pc = "url"
    /\ link_valid' = _is_valid_apply_link(link_url)
    /\ link_pc' = "checked"
    /\ UNCHANGED <<link_url, poll_vars, retry_vars, url_vars, extract_vars, rows_vars, text_vars>>

ValidNext == IsValidApplyLink

ValidSpec == ValidInit /\ [][ValidNext]_vars

(***************************************************************************)
(* parsing_utils.extract_apply_link: HREF_REGEX and APPLY_ANCHOR_REGEX on  *)
(* the text of a row, and the rows it is applied to                        *)
(***************************************************************************)
Quotes == {"\"", "'"}

\* What continues a word when it follows it without a space ("Apply" "ing").
WordSuffixes == {"ing"}

\* The least and the greatest of a set of positions.
First(positions) == CHOOSE a \in positions : \A b \in positions : a <= b

Last(positions) == CHOOSE a \in positions : \A b \in positions : b <= a

\* `\s*` from position i: the position of the first token that is no whitespace.
SkipWhitespace(text, i) ==
    IF i > Len(text) THEN i
    ELSE IF \A j \in i..Len(text) : text[j] \in Whitespace THEN Len(text) + 1
    ELSE First({ j \in i..Len(text) : text[j] \notin Whitespace })

\* `\s*["']` matches at position i: the position after the quote, 0 when it
\* does not match.
QuoteAt(text, i) ==
    IF i <= Len(text) /\ text[i] \in Quotes THEN i + 1 ELSE 0

\* `\s*=\s*["']` matches at position i.
EqualsAt(text, i) ==
    IF i <= Len(text) /\ text[i] = "=" THEN QuoteAt(text, SkipWhitespace(text, i + 1)) ELSE 0

\* `name\s*=\s*["']` (re.IGNORECASE) matches at position i: the position
\* after the opening quote, 0 when it does not match.
AttributeAt(text, i, name) ==
    IF i >= 1 /\ i <= Len(text) /\ LowerToken(text[i]) = name
    THEN EqualsAt(text, SkipWhitespace(text, i + 1))
    ELSE 0

NoMatch == [first |-> 0, close |-> 0]

\* `([^"']+)["']` matches from position first on: where group(1) starts and
\* where the quote that closes it stands.
ValueAt(text, first, close) ==
    IF first # 0 /\ close > first THEN [first |-> first, close |-> close] ELSE NoMatch

\* HREF_REGEX matches at position i.
HrefFrom(text, first) ==
    ValueAt(text, first, IF first = 0 THEN 0 ELSE FindFrom(text, Quotes, first))

HrefAt(text, i) == HrefFrom(text, AttributeAt(text, i, "href"))

\* HREF_REGEX.findall on the text from position i on: the leftmost match m,
\* then the matches after it; hits are the positions of the matches.
RECURSIVE HREF_REGEX_findall(_, _)
HrefMatchAndRest(text, m) ==
    <<SubSeq(text, m.first, m.close - 1)>> \o HREF_REGEX_findall(text, m.close + 1)

HrefMatches(text, hits) ==
    IF hits = {} THEN <<>> ELSE HrefMatchAndRest(text, HrefAt(text, First(hits)))

HREF_REGEX_findall(text, i) ==
    HrefMatches(text, { j \in i..Len(text) : HrefAt(text, j) # NoMatch })

\* `[^>]*` from a tag's start: the last position it can reach, gt being the
\* position of the first ">" (0 when there is none).
TagLimit(text, gt) == IF gt = 0 THEN Len(text) ELSE gt - 1

\* `["']Apply["']` with the opening quote just before position value: the
\* position of the closing quote, 0 when it does not match.
AltApplyAt(text, value) ==
    IF /\ value # 0
       /\ value + 1 <= Len(text)
       /\ LowerToken(text[value]) = "apply"
       /\ text[value + 1] \in Quotes
    THEN value + 1
    ELSE 0

\* `<img[^>]*alt\s*=\s*["']Apply["']` with "<img" at position m.
ImageApplyEnd(text, alts) ==
    IF alts = {} THEN 0 ELSE AltApplyAt(text, AttributeAt(text, Last(alts), "alt"))

ImageApplyAt(text, m, limit) ==
    ImageApplyEnd(text, { a \in (m + 1)..limit :
                            AltApplyAt(text, AttributeAt(text, a, "alt")) # 0 })

\* `(?:<img[^>]*alt\s*=\s*["']Apply["']|Apply\b)` matches at position m: the
\* position of the last token of the match, 0 when it does not match.
ApplyLabelFrom(text, m) ==
    IF m > Len(text) THEN 0
    ELSE IF LowerToken(text[m]) = "apply"
    THEN IF m < Len(text) /\ text[m + 1] \in WordSuffixes THEN 0 ELSE m
    ELSE IF text[m] = "<img"
    THEN ImageApplyAt(text, m, TagLimit(text, FindFrom(text, {">"}, m + 1)))
    ELSE 0

\* `[^>]*>\s*(?:...)` after the href value that the quote at m.close closes;
\* gt is the position of the first ">" after it.
ApplyLabelAfter(text, gt) ==
    IF gt = 0 THEN 0 ELSE ApplyLabelFrom(text, SkipWhitespace(text, gt + 1))

\* The rest of APPLY_ANCHOR_REGEX from its href on, m being the HREF_REGEX
\* match there: group(1) and the position of the last token of the match;
\* stop = 0 when it does not match.
AnchorMatch(text, m) ==
    IF m = NoMatch THEN [href |-> <<>>, stop |-> 0]
    ELSE [href |-> SubSeq(text, m.first, m.close - 1),
          stop |-> ApplyLabelAfter(text, FindFrom(text, {">"}, m.close + 1))]

\* `<a[^>]+href` reaches the hrefs of the tag; the greedy `[^>]+` takes the
\* last one from which the rest matches.
LastAnchorMatch(text, hits) ==
    IF hits = {} THEN AnchorMatch(text, NoMatch)
    ELSE AnchorMatch(text, HrefAt(text, Last(hits)))

AnchorHits(text, i, limit) ==
    { h \in (i + 2)..limit : AnchorMatch(text, HrefAt(text, h)).stop # 0 }

\* APPLY_ANCHOR_REGEX matches with its "<a" at position i.
ApplyAnchorAt(text, i) ==
    IF text[i] = "<a"
    THEN LastAnchorMatch(text, AnchorHits(text, i, TagLimit(text, FindFrom(text, {">"}, i + 1))))
    ELSE AnchorMatch(text, NoMatch)

\* APPLY_ANCHOR_REGEX.findall on the text from position i on: the leftmost
\* match m, then the matches after it; hits are the positions of the matches.
RECURSIVE APPLY_ANCHOR_REGEX_findall(_, _)
ApplyMatchAndRest(text, m) ==
    <<m.href>> \o APPLY_ANCHOR_REGEX_findall(text, m.stop + 1)

ApplyMatches(text, hits) ==
    IF hits = {} THEN <<>> ELSE ApplyMatchAndRest(text, ApplyAnchorAt(text, First(hits)))

APPLY_ANCHOR_REGEX_findall(text, i) ==
    ApplyMatches(text, { j \in i..Len(text) : ApplyAnchorAt(text, j).stop # 0 })

\* 84-87 and 89-92: the first match whose normalized form exists and is a
\* valid apply link, NONE when there is none; candidate is the normalized
\* form of the first match.
RECURSIVE FirstValidCandidate(_)
CandidateOrNext(candidate, matches) ==
    IF candidate # NONE /\ candidate # <<>> /\ _is_valid_apply_link(candidate)
    THEN candidate
    ELSE FirstValidCandidate(matches)

FirstValidCandidate(matches) ==
    IF matches = <<>> THEN NONE
    ELSE CandidateOrNext(normalize_candidate_url(Head(matches)), Tail(matches))

\* extract_apply_link with one pass over HREF_REGEX only.
extract_apply_link_single_pass(raw_html) ==
    FirstValidCandidate(HREF_REGEX_findall(raw_html, 1))

\* 89-94: what follows the first loop, apply being what it has found.
AfterApplyPass(apply, raw_html) ==
    IF apply # NONE THEN apply ELSE FirstValidCandidate(HREF_REGEX_findall(raw_html, 1))

\* parsing_utils.extract_apply_link on the text of a row.
extract_apply_link_text(raw_html) ==
    AfterApplyPass(FirstValidCandidate(APPLY_ANCHOR_REGEX_findall(raw_html, 1)), raw_html)

\* The hrefs of the anchors of a row: two job postings (one with a tracking
\* parameter), a company profile on the job board, and a relative link.
RowHrefs ==
    { <<"https", ":", "/", "/", "h.example", "/", "jobs", "/", "1">>,
      <<"https", ":", "/", "/", "h.example", "/", "jobs", "/", "2", "?", "utm_x", "=", "1">>,
      <<"https", ":", "/", "/", "simplify.jobs", "/", "c", "/", "acme">>,
      <<"/", "apply">> }

\* What stands between <a ...> and </a>: text, or an image with an alt text.
TextLabel(words) == [html |-> words, text |-> strip(words), alt |-> <<>>]

ImageLabel(alt) ==
    [html |-> <<"<img", " ", "src", "=", "\"", "https", ":", "/", "/", "i.", "imgur.com", "/",
                "a", ".png", "\"", " ", "alt", "=", "\"", alt, "\"", ">">>,
     text |-> <<>>,
     alt |-> <<alt>>]

RowLabels ==
    { TextLabel(<<"Apply">>), TextLabel(<<" ", "apply">>), TextLabel(<<"Apply", "ing">>),
      TextLabel(<<"Acme">>), ImageLabel("Apply"), ImageLabel("Logo") }

\* The href of an anchor stands in double quotes, in single quotes when its
\* label is the lower-case text.
Anchors ==
    { [href |-> href, label |-> label,
       quote |-> IF label = TextLabel(<<" ", "apply">>) THEN "'" ELSE "\""] :
        href \in RowHrefs, label \in RowLabels }

\* The text of a row: one table cell per anchor.
RECURSIVE RenderRow(_)
RenderRow(anchors) ==
    IF anchors = <<>> THEN <<>>
    ELSE LET a == Head(anchors)
         IN  <<"<td>", "<a", " ", "href", "=", a.quote>> \o a.href \o <<a.quote, ">">>
                 \o a.label.html \o <<"</a>", "</td>">> \o RenderRow(Tail(anchors))

ExtractInit ==
    /\ PollInit
    /\ settings = CHOOSE st \in SettingsSet : TRUE
    /\ RetryIdle
    /\ UrlIdle /\ LinkIdle /\ RowsIdle /\ TextIdle
    /\ row_anchors \in SeqUpTo(Anchors, MaxAnchors)
    /\ raw_html_string = RenderRow(row_anchors)
    /\ extract_pc = "row"
    /\ apply_link = NONE

\* extract_apply_link is called on the row.
ExtractApplyLink ==
    /\ extract_pc = "row"
    /\ apply_link' = extract_apply_link_text(raw_html_string)
    /\ extract_pc' = "extracted"
    /\ UNCHANGED <<row_anchors, raw_html_string, poll_vars, retry_vars, url_vars, link_vars,
                   rows_vars, text_vars>>

ExtractNext == ExtractApplyLink

ExtractSpec == ExtractInit /\ [][ExtractNext]_vars

(***************************************************************************)
(* parsing_utils.reconstruct_added_rows, the added lines it is applied to, *)
(* and what main._fetch_github_candidates does with its rows               *)
(***************************************************************************)
\* "<tr" in lower, "</tr>" in lower, "<td" in chunk.lower().
HasRowOpen(low) == Contains(low, <<"<tr>">>)

HasRowClose(low) == Contains(low, <<"</tr>">>)

HasCellOpen(low) == Contains(low, <<"<td>">>)

\* 43, 51: " ".join(buffer); 66, 74: " ".join(current).
RowText_no_space(buffer) == join(buffer, "")

RowText(buffer) == join(buffer, " ")

ChunkText(current) == join(current, " ")

\* 41: buffer = [line], whatever the buffer held.
StartBuffer_keeps(buffer, line) == Append(buffer, line)

StartBuffer(buffer, line) == <<line>>

\* 36-54: the loop of the primary strategy over the lines that are left,
\* with the locals rows, buffer and collecting.
RECURSIVE PrimaryScan(_, _, _, _)
PrimaryScan(lines, row_list, buffer, collecting) ==
    IF lines = <<>> THEN row_list
    ELSE LET line == strip(Head(lines))
             low == lower(line)
         IN  IF HasRowOpen(low)
             THEN IF HasRowClose(low)
                  THEN PrimaryScan(Tail(lines),
                                   Append(row_list, RowText(StartBuffer(buffer, line))),
                                   <<>>, FALSE)
                  ELSE PrimaryScan(Tail(lines), row_list, StartBuffer(buffer, line), TRUE)
             ELSE IF collecting
             THEN IF HasRowClose(low)
                  THEN PrimaryScan(Tail(lines), Append(row_list, RowText(Append(buffer, line))),
                                   <<>>, FALSE)
                  ELSE PrimaryScan(Tail(lines), row_list, Append(buffer, line), TRUE)
             ELSE PrimaryScan(Tail(lines), row_list, buffer, collecting)

PrimaryRows(lines) == PrimaryScan(lines, <<>>, <<>>, FALSE)

\* 65-68, 73-76: a chunk is kept when it holds a cell marker.
KeepChunk_any(chunk) == TRUE

KeepChunk(chunk) == HasCellOpen(lower(chunk))

\* 61-76: the loop of the fallback strategy, with the locals chunks and
\* current, and what follows the loop.
RECURSIVE FallbackScan(_, _, _)
FallbackScan(lines, chunks, current) ==
    IF lines = <<>>
    THEN IF current # <<>> /\ KeepChunk(ChunkText(current))
         THEN Append(chunks, ChunkText(current))
         ELSE chunks
    ELSE LET line == strip(Head(lines))
         IN  IF line = <<>>
             THEN IF current # <<>> /\ KeepChunk(ChunkText(current))
                  THEN FallbackScan(Tail(lines), Append(chunks, ChunkText(current)), <<>>)
                  ELSE FallbackScan(Tail(lines), chunks, <<>>)
             ELSE FallbackScan(Tail(lines), chunks, Append(current, line))

FallbackChunks(lines) == FallbackScan(lines, <<>>, <<>>)

\* parsing_utils.reconstruct_added_rows.
reconstruct_added_rows(lines) ==
    IF PrimaryRows(lines) # <<>> THEN PrimaryRows(lines) ELSE FallbackChunks(lines)

\* main._build_github_candidate on the text of a row; a row without an apply
\* link gives no candidate (apply_url is NONE).
build_github_candidate(row) ==
    [row_payload |-> row, apply_url |-> extract_apply_link_text(row)]

\* main.py:320: `if (candidate := ...)` keeps the candidate of a row that has
\* one; the candidates of the later rows come before or after it.
KeepCandidate_after(candidate, later) ==
    IF candidate.apply_url = NONE THEN later ELSE Append(later, candidate)

KeepCandidate(candidate, later) ==
    IF candidate.apply_url = NONE THEN later ELSE <<candidate>> \o later

\* main.py:320: the candidates of the rows that have one, in the order of the rows.
RECURSIVE CandidatesOfRows(_)
CandidatesOfRows(row_list) ==
    IF row_list = <<>> THEN <<>>
    ELSE KeepCandidate(build_github_candidate(Head(row_list)), CandidatesOfRows(Tail(row_list)))

\* A table cell with an Apply anchor to job posting k.
ApplyCell(k) ==
    <<"<td>", "<a", " ", "href", "=", "\"", "https", ":", "/", "/", "h.example", "/", "jobs",
      "/", k, "\"", ">", "Apply", "</a>", "</td>">>

\* The added lines of a diff: a row-open line, a cell line (indented), a
\* row-close line (with trailing whitespace), a whole row on one line (upper
\* case tags), a blank line, and a line that closes a row and opens the next.
AddedLineKinds ==
    { <<"<tr>">>,
      <<" ">> \o ApplyCell("1"),
      <<"</tr>", " ">>,
      <<"<TR>">> \o ApplyCell("2") \o <<"</TR>">>,
      <<" ">>,
      <<"</tr>", "<tr>">> }

RowsInit ==
    /\ PollInit
    /\ settings = CHOOSE st \in SettingsSet : TRUE
    /\ RetryIdle
    /\ UrlIdle /\ LinkIdle /\ ExtractIdle /\ TextIdle
    /\ added_lines \in SeqUpTo(AddedLineKinds, MaxLines)
    /\ rows_pc = "lines"
    /\ primary_rows = <<>>
    /\ reconstructed = <<>>
    /\ row_candidates = <<>>
    /\ row_processed = <<>>

\* main.py:319: reconstruct_added_rows is called on the added lines.
ReconstructAddedRows ==
    /\ rows_pc = "lines"
    /\ primary_rows' = PrimaryRows(added_lines)
    /\ reconstructed' = reconstruct_added_rows(added_lines)
    /\ rows_pc' = "reconstructed"
    /\ UNCHANGED <<added_lines, row_candidates, row_processed, poll_vars, retry_vars,
                   url_vars, link_vars, extract_vars,
                   text_vars>>

\* main.py:320: the candidates are built from the rows.
BuildCandidates ==
    /\ rows_pc = "reconstructed"
    /\ row_candidates' = CandidatesOfRows(reconstructed)
    /\ rows_pc' = "candidates"
    /\ UNCHANGED <<added_lines, primary_rows, reconstructed, row_processed, poll_vars,
                   retry_vars, url_vars, link_vars, extract_vars,
                   text_vars>>

\* main.py:273: the loop of _process_candidates takes the next candidate.
TakeCandidate ==
    /\ rows_pc = "candidates"
    /\ Len(row_processed) < Len(row_candidates)
    /\ row_processed' = Append(row_processed, row_candidates[Len(row_processed) + 1])
    /\ UNCHANGED <<added_lines, rows_pc, primary_rows, reconstructed, row_candidates,
                   poll_vars, retry_vars, url_vars, link_vars, extract_vars,
                   text_vars>>

RowsNext == ReconstructAddedRows \/ BuildCandidates \/ TakeCandidate

RowsSpec == RowsInit /\ [][RowsNext]_vars

(***************************************************************************)
(* parsing_utils.estimate_posted_date_from_age                             *)
(*                                                                         *)
(* An age token is a sequence of characters.  An instant is a UTC          *)
(* calendar date and an hour; a date in ISO format is the sequence of the  *)
(* ten characters YYYY-MM-DD.                                              *)
(***************************************************************************)
DigitChars == <<"0", "1", "2", "3", "4", "5", "6", "7", "8", "9">>

IsDigit(c) == \E k \in 1..10 : DigitChars[k] = c

\* int() of one digit.
DigitValue(c) == (CHOOSE k \in 1..10 : DigitChars[k] = c) - 1

\* int() of a string of digits.
RECURSIVE int(_)
int(digits) ==
    IF digits = <<>> THEN 0
    ELSE 10 * int(SubSeq(digits, 1, Len(digits) - 1)) + DigitValue(digits[Len(digits)])

\* (\d+): the position after the digits that start at position i.
SkipDigits(text, i) ==
    IF i > Len(text) THEN i
    ELSE IF \A j \in i..Len(text) : IsDigit(text[j]) THEN Len(text) + 1
    ELSE First({ j \in i..Len(text) : ~IsDigit(text[j]) })

\* (h|d|w|mo), ignoring case: the length of the unit at position i, 0 if none.
UnitLengthAt(text, i) ==
    IF i <= Len(text) /\ LowerToken(text[i]) \in {"h", "d", "w"} THEN 1
    ELSE IF i + 1 <= Len(text) /\ LowerToken(text[i]) = "m" /\ LowerToken(text[i + 1]) = "o" THEN 2
    ELSE 0

NoAgeMatch == [digits |-> <<>>, unit |-> <<>>]

\* \s*(h|d|w|mo)\s*$ after the digits text[first..after-1]; unit_at is where
\* the unit must stand and unit_length its length.
AgeMatchUnit(text, first, after, unit_at, unit_length) ==
    IF /\ unit_length > 0
       /\ SkipWhitespace(text, unit_at + unit_length) = Len(text) + 1
    THEN [digits |-> SubSeq(text, first, after - 1),
          unit |-> SubSeq(text, unit_at, unit_at + unit_length - 1)]
    ELSE NoAgeMatch

AgeMatchAfterDigits(text, first, after, unit_at) ==
    IF after = first THEN NoAgeMatch
    ELSE AgeMatchUnit(text, first, after, unit_at, UnitLengthAt(text, unit_at))

AgeMatchDigits(text, first, after) ==
    AgeMatchAfterDigits(text, first, after, SkipWhitespace(text, after))

AgeMatchFrom(text, first) == AgeMatchDigits(text, first, SkipDigits(text, first))

\* parsing_utils.py:17: AGE_TOKEN_REGEX.match(text); group(1) and group(2).
AGE_TOKEN_REGEX_match(text) == AgeMatchFrom(text, SkipWhitespace(text, 1))

\* datetime: the days of the months of a common year.
DAYS_IN_MONTH == <<31, 28, 31, 30, 31, 30, 31, 31, 30, 31, 30, 31>>

is_leap(year) == year % 4 = 0 /\ (year % 100 # 0 \/ year % 400 = 0)

days_in_month(year, month) ==
    IF month = 2 /\ is_leap(year) THEN 29 ELSE DAYS_IN_MONTH[month]

\* datetime._days_before_year: the days before January 1st of the year.
days_before_year(year) ==
    (year - 1) * 365 + (year - 1) \div 4 - (year - 1) \div 100 + (year - 1) \div 400

\* datetime._days_before_month: the days of the year before the first of the month.
RECURSIVE days_before_month(_, _)
days_before_month(year, month) ==
    IF month = 1 THEN 0
    ELSE days_before_month(year, month - 1) + days_in_month(year, month - 1)

\* datetime._ymd2ord: the ordinal of a date, 0001-01-01 being day 1.
ymd2ord(year, month, day) == days_before_year(year) + days_before_month(year, month) + day

Date(year, month, day) == [year |-> year, month |-> month, day |-> day]

\* datetime._ord2ymd, its last part: the month and the day from the day n of
\* the year (from 0), month being the estimate (n + 50) >> 5.
MonthAndDay(year, n, month) ==
    IF days_before_month(year, month) > n
    THEN Date(year, month - 1, n - days_before_month(year, month - 1) + 1)
    ELSE Date(year, month, n - days_before_month(year, month) + 1)

\* n1 years into a four-year cycle that starts with the year first.
YearInCycle(first, n1, n) ==
    IF n1 = 4 THEN Date(first + 3, 12, 31)
    ELSE MonthAndDay(first + n1, n, (n + 50) \div 32)

FourYears(first, n) == YearInCycle(first, n \div 365, n % 365)

\* n100 centuries into a 400-year cycle that starts with the year first.
Century(first, n100, n) ==
    IF n100 = 4 THEN Date(first + 399, 12, 31)
    ELSE FourYears(first + 100 * n100 + 4 * (n \div 1461), n % 1461)

Centuries(first, n) == Century(first, n \div 36524, n % 36524)

\* datetime._ord2ymd: the date of an ordinal.
ord2ymd(n) == Centuries(400 * ((n - 1) \div 146097) + 1, (n - 1) % 146097)

\* The hours from 0001-01-01T00 to the instant, and the date that holds an hour.
HoursOf(instant) == 24 * (ymd2ord(instant.year, instant.month, instant.day) - 1) + instant.hour

DateOfHours(hours) == ord2ymd(hours \div 24 + 1)

\* parsing_utils.py:139-148: now - timedelta(...), then .date().
PostedDate_long_month(amount, unit, instant) ==
    IF unit = <<"h">> THEN DateOfHours(HoursOf(instant) - amount)
    ELSE IF unit = <<"d">> THEN DateOfHours(HoursOf(instant) - 24 * amount)
    ELSE IF unit = <<"w">> THEN DateOfHours(HoursOf(instant) - 24 * 7 * amount)
    ELSE DateOfHours(HoursOf(instant) - 24 * 31 * amount)

PostedDate(amount, unit, instant) ==
    IF unit = <<"h">> THEN DateOfHours(HoursOf(instant) - amount)
    ELSE IF unit = <<"d">> THEN DateOfHours(HoursOf(instant) - 24 * amount)
    ELSE IF unit = <<"w">> THEN DateOfHours(HoursOf(instant) - 24 * 7 * amount)
    ELSE DateOfHours(HoursOf(instant) - 24 * 30 * amount)

\* "%0*d": the decimal digits of n, padded with zeros to the width.
RECURSIVE Padded(_, _)
Padded(n, width) ==
    IF width = 0 THEN <<>> ELSE Append(Padded(n \div 10, width - 1), DigitChars[(n % 10) + 1])

\* date.isoformat(): "%04d-%02d-%02d".
isoformat(date) ==
    Padded(date.year, 4) \o <<"-">> \o Padded(date.month, 2) \o <<"-">> \o Padded(date.day, 2)

\* 131-151, match being the result of AGE_TOKEN_REGEX.match(age_token).
EstimateFromMatch(match, instant) ==
    IF match = NoAgeMatch THEN NONE
    ELSE isoformat(PostedDate(int(match.digits), lower(match.unit), instant))

\* parsing_utils.estimate_posted_date_from_age; instant is the value of
\* datetime.now(timezone.utc) at line 137.
estimate_posted_date_from_age(token, instant) ==
    IF token = NONE \/ token = <<>> THEN NONE
    ELSE EstimateFromMatch(AGE_TOKEN_REGEX_match(token), instant)

\* The age tokens: blanks, up to MaxDigits digits, blanks, a unit or
\* something else or nothing, and what follows.
AgeDigits == SeqUpTo({"0", "1", "2", "3"}, MaxDigits)

AgeUnits ==
    { <<>>, <<"h">>, <<"d">>, <<"w">>, <<"m", "o">>, <<"H">>, <<"D">>, <<"W">>, <<"M", "o">>,
      <<"m">>, <<"y">> }

AgeBlanks == { <<>>, <<" ">> }

AgeTokens ==
    { before \o digits \o between \o unit \o after :
        before \in AgeBlanks, digits \in AgeDigits, between \in AgeBlanks,
        unit \in AgeUnits, after \in { <<>>, <<" ">>, <<"x">> } }

\* The readings of the clock: the instant of the examples, the end of a day,
\* days after the end of February in a leap year, a common year and a
\* century year, and the first day of a year.
Instants ==
    { [year |-> 2024, month |-> 1, day |-> 10, hour |-> 0],
      [year |-> 2024, month |-> 1, day |-> 10, hour |-> 23],
      [year |-> 2024, month |-> 3, day |-> 1, hour |-> 1],
      [year |-> 2023, month |-> 3, day |-> 2, hour |-> 12],
      [year |-> 2100, month |-> 3, day |-> 1, hour |-> 0],
      [year |-> 2025, month |-> 1, day |-> 1, hour |-> 2] }

DateInit ==
    /\ PollInit
    /\ settings = CHOOSE st \in SettingsSet : TRUE
    /\ RetryIdle
    /\ UrlIdle /\ LinkIdle /\ ExtractIdle /\ RowsIdle /\ DiffIdle
    /\ row_cells = <<>>
    /\ row_html = <<>>
    /\ age_token \in AgeTokens \/ age_token = NONE
    /\ now \in Instants
    /\ date_pc = "token"
    /\ posted_date = NONE

\* estimate_posted_date_from_age is called with the token; the clock reads now.
EstimatePostedDate ==
    /\ date_pc = "token"
    /\ posted_date' = estimate_posted_date_from_age(age_token, now)
    /\ date_pc' = "estimated"
    /\ UNCHANGED <<row_cells, row_html, age_token, now, poll_vars, retry_vars, url_vars,
                   link_vars, extract_vars, rows_vars, diff_vars>>

DateNext == EstimatePostedDate

DateSpec == DateInit /\ [][DateNext]_vars

(***************************************************************************)
(* parsing_utils.extract_posted_age                                        *)
(*                                                                         *)
(* The text of a row is a sequence of tokens: a tag is one token, the      *)
(* text of a cell one token per character or word.                         *)
(***************************************************************************)
CellOpenTags == {"<td>", "<TD>", "<td align=\"center\">"}

CellCloseTags == {"</td>", "</TD>"}

\* TAG_REGEX (<[^>]+>): the tokens that are tags.
Tags == CellOpenTags \cup CellCloseTags \cup {"<b>", "</b>", "<br>"}

\* re.findall(r"<td[^>]*>(.*?)</td>", row_html, IGNORECASE | DOTALL) from
\* position i on; opened is where the next opening tag stands (0: none) and
\* closed where the first closing tag after it stands (0: none).
RECURSIVE CellsFrom(_, _)
CellsBetween(text, opened, closed) ==
    IF opened = 0 \/ closed = 0 THEN <<>>
    ELSE <<SubSeq(text, opened + 1, closed - 1)>> \o CellsFrom(text, closed + 1)

CellsOpened(text, opened) ==
    CellsBetween(text, opened, IF opened = 0 THEN 0 ELSE FindFrom(text, CellCloseTags, opened + 1))

CellsFrom(text, i) == CellsOpened(text, FindFrom(text, CellOpenTags, i))

\* TAG_REGEX.sub(" ", raw).
TagsToSpaces(raw) == [i \in 1..Len(raw) |-> IF raw[i] \in Tags THEN " " ELSE raw[i]]

\* re.sub(r"\s+", " ", text): a run of whitespace becomes one space.
RECURSIVE CollapseWhitespace(_)
CollapseWhitespace(text) ==
    IF text = <<>> THEN <<>>
    ELSE IF Head(text) \in Whitespace
    THEN <<" ">> \o CollapseWhitespace(lstrip(text, Whitespace))
    ELSE <<Head(text)>> \o CollapseWhitespace(Tail(text))

\* parsing_utils._clean_text.
clean_text(raw) == strip(CollapseWhitespace(html_unescape(TagsToSpaces(raw))))

\* 119-123, age_text being the cleaned text of the cell.
AgeOfText(age_text) ==
    IF age_text = <<>> THEN NONE
    ELSE IF AGE_TOKEN_REGEX_match(age_text) = NoAgeMatch THEN NONE
    ELSE <<>> \o lower(age_text)

\* 114-119, cells being the result of re.findall.
AgeOfCells_fourth(cells) ==
    IF Len(cells) < 5 THEN NONE ELSE AgeOfText(clean_text(cells[4]))

AgeOfCells(cells) ==
    IF Len(cells) < 5 THEN NONE ELSE AgeOfText(clean_text(cells[5]))

\* parsing_utils.extract_posted_age.
extract_posted_age(row) == AgeOfCells(CellsFrom(row, 1))

\* A cell of a row: its opening tag, its content, and the text a reader of
\* the rendered table sees in it.
Cell(open, content, text) == [open |-> open, html |-> content, text |-> text]

PlainCell(text) == Cell("<td>", text, text)

\* The cells beside the age column: a name, and a text that looks like an age.
OtherCells == { PlainCell(<<"Acme">>), PlainCell(<<"9", "d">>) }

\* The cells of the age column.
AgeCells ==
    { PlainCell(<<"3", "d">>),
      PlainCell(<<"0", "h">>),
      PlainCell(<<"3", " ", "d">>),
      PlainCell(<<"Acme">>),
      PlainCell(<<"3", "x">>),
      PlainCell(<<"3", "d", "a", "y", "s">>),
      PlainCell(<<"d">>),
      PlainCell(<<"3">>),
      PlainCell(<<>>),
      Cell("<TD>", <<"1", "2", "M", "O">>, <<"1", "2", "M", "O">>),
      Cell("<td align=\"center\">", <<" ", "1", "W", " ">>, <<"1", "W">>),
      Cell("<td>", <<"<b>", "2", "w", "</b>">>, <<"2", "w">>),
      Cell("<td>", <<"3", "<br>", "d">>, <<"3", " ", "d">>),
      Cell("<td>", <<"3", "&", "#100;">>, <<"3", "d">>),
      Cell("<td>", <<"x", "<b>", " ", "</b>", "3", "d">>, <<"x", " ", "3", "d">>),
      Cell("<td>", <<" ", "<br>", " ">>, <<>>) }

\* The rows: up to MaxCells cells, the one at index 4 from the age column.
RowCells ==
    UNION { { [k \in 1..n |-> IF k = 5 THEN age ELSE other[k]] :
                other \in [1..n -> OtherCells], age \in AgeCells } : n \in 0..MaxCells }

\* The text of a row: the cells between <tr> and </tr>, each closed by </td>
\* (</TD> after <TD>).
RECURSIVE RenderCells(_)
RenderCells(cells) ==
    IF cells = <<>> THEN <<>>
    ELSE <<Head(cells).open>> \o Head(cells).html
           \o <<IF Head(cells).open = "<TD>" THEN "</TD>" ELSE "</td>">>
           \o RenderCells(Tail(cells))

AgeInit ==
    /\ PollInit
    /\ settings = CHOOSE st \in SettingsSet : TRUE
    /\ RetryIdle
    /\ UrlIdle /\ LinkIdle /\ ExtractIdle /\ RowsIdle /\ DiffIdle
    /\ row_cells \in RowCells
    /\ row_html = <<"<tr>">> \o RenderCells(row_cells) \o <<"</tr>">>
    /\ age_token = NONE
    /\ now \in Instants
    /\ date_pc = "row"
    /\ posted_date = NONE

\* main.py:154: extract_posted_age is called with the row.
ExtractPostedAge ==
    /\ date_pc = "row"
    /\ age_token' = extract_posted_age(row_html)
    /\ date_pc' = "token"
    /\ UNCHANGED <<row_cells, row_html, now, posted_date, poll_vars, retry_vars, url_vars,
                   link_vars, extract_vars, rows_vars, diff_vars>>

\* main.py:154-155: the age is extracted, then the date is estimated from it.
AgeNext == ExtractPostedAge \/ EstimatePostedDate

AgeSpec == AgeInit /\ [][AgeNext]_vars

(***************************************************************************)
(* github_client.get_commit_diff over the compare result                   *)
(***************************************************************************)
\* The longest edit script drawn for the tracked document.
MaxOps == 4

\* settings.github_target_file and the name of another changed file.
github_target_file == "README.md"
OtherFileName == "docs/NOTES.md"

\* str.splitlines at line feeds: a final line feed opens no further line.
RECURSIVE splitlines(_)
SplitLinesAt(text, i) ==
    IF i = 0 THEN <<text>> ELSE <<Before(text, i)>> \o splitlines(After(text, i))

splitlines(text) ==
    IF text = <<>> THEN <<>> ELSE SplitLinesAt(text, Find(text, {"\n"}))

\* The loop of github_client.py:76-80 and 95-99 over the lines of a diff.
RECURSIVE AddedLinesOf(_)
AddedLinesOf(lines) ==
    IF lines = <<>> THEN <<>>
    ELSE IF startswith(Head(lines), <<"+", "+", "+">>) THEN AddedLinesOf(Tail(lines))
    ELSE IF startswith(Head(lines), <<"+">>)
         THEN <<Tail(Head(lines))>> \o AddedLinesOf(Tail(lines))
    ELSE AddedLinesOf(Tail(lines))

_extract_added_lines_from_patch(patch) == AddedLinesOf(splitlines(patch))

\* difflib: the length of the common run of a from i and b from j.
RECURSIVE RunLength(_, _, _, _, _, _)
RunLength(a, b, i, j, ahi, bhi) ==
    IF i > ahi \/ j > bhi THEN 0
    ELSE IF a[i] # b[j] THEN 0
    ELSE 1 + RunLength(a, b, i + 1, j + 1, ahi, bhi)

\* SequenceMatcher.find_longest_match without junk: the longest common block of
\* a[alo..ahi] and b[blo..bhi], the earliest in a, then the earliest in b.
BlockStarts(a, b, alo, ahi, blo, bhi) ==
    { [i |-> i, j |-> j, k |-> RunLength(a, b, i, j, ahi, bhi)] :
        i \in alo..ahi, j \in blo..bhi }

IsBetterBlock(m, n) ==
    \/ m.k > n.k
    \/ m.k = n.k /\ m.i < n.i
    \/ m.k = n.k /\ m.i = n.i /\ m.j <= n.j

BestBlock(blocks) ==
    IF blocks = {} THEN [i |-> 0, j |-> 0, k |-> 0]
    ELSE CHOOSE m \in blocks : \A n \in blocks : IsBetterBlock(m, n)

find_longest_match(a, b, alo, ahi, blo, bhi) ==
    BestBlock(BlockStarts(a, b, alo, ahi, blo, bhi))

\* The lines of seq[lo..hi], each behind the one-character prefix of a diff line.
Prefixed(prefix, seq, lo, hi) == [n \in 1..(hi - lo + 1) |-> <<prefix>> \o seq[lo + n - 1]]

\* difflib: the lines of one hunk: the blocks that match are context, what lies
\* between two blocks is removed from a and added from b.
RECURSIVE HunkLines(_, _, _, _, _, _)
HunkLinesAround(a, b, alo, ahi, blo, bhi, m) ==
    IF m.k = 0
    THEN Prefixed("-", a, alo, ahi) \o Prefixed("+", b, blo, bhi)
    ELSE HunkLines(a, b, alo, m.i - 1, blo, m.j - 1)
         \o Prefixed(" ", a, m.i, m.i + m.k - 1)
         \o HunkLines(a, b, m.i + m.k, ahi, m.j + m.k, bhi)

HunkLines(a, b, alo, ahi, blo, bhi) ==
    HunkLinesAround(a, b, alo, ahi, blo, bhi, find_longest_match(a, b, alo, ahi, blo, bhi))

\* difflib.unified_diff(a, b, lineterm=""): nothing when a = b, else the two
\* file headers, the hunk header and the lines of the hunk.
unified_diff(a, b) ==
    IF a = b THEN <<>>
    ELSE <<<<"-", "-", "-", " ">>, <<"+", "+", "+", " ">>, <<"@@">>>>
         \o HunkLines(a, b, 1, Len(a), 1, Len(b))

\* github_client._fallback_added_lines on the two contents it downloads.
_fallback_added_lines(old_content, new_content) ==
    AddedLinesOf(unified_diff(splitlines(old_content), splitlines(new_content)))

\* changed_file.get("patch") is falsy: the key is missing or the text is empty.
PatchMissing(changed_file) == ~changed_file.has_patch \/ changed_file.patch = <<>>

\* github_client.get_commit_diff on the files of the compare result and the
\* contents of the tracked document at the two revisions.
RECURSIVE get_commit_diff_files(_, _, _)
get_commit_diff_files(files, old_content, new_content) ==
    IF files = <<>> THEN <<>>
    ELSE IF Head(files).filename # github_target_file
         THEN get_commit_diff_files(Tail(files), old_content, new_content)
    ELSE IF PatchMissing(Head(files)) THEN _fallback_added_lines(old_content, new_content)
    ELSE _extract_added_lines_from_patch(Head(files).patch)

\* One step of an edit of the tracked document: a line kept, deleted or inserted.
OldTexts == {<<"a">>, <<"b">>}
InsertedTexts == {<<"x">>, <<>>, <<"+", "z">>, <<"+", "+", "y">>}

EditOps ==
    [op : {"keep", "delete"}, text : OldTexts] \cup [op : {"insert"}, text : InsertedTexts]

\* The lines of the steps of the given kinds, in order.
RECURSIVE LinesOf(_, _)
LinesOf(edit, kinds) ==
    IF edit = <<>> THEN <<>>
    ELSE IF Head(edit).op \in kinds THEN <<Head(edit).text>> \o LinesOf(Tail(edit), kinds)
    ELSE LinesOf(Tail(edit), kinds)

OldLines(edit) == LinesOf(edit, {"keep", "delete"})
NewLines(edit) == LinesOf(edit, {"keep", "insert"})
Inserted(edit) == LinesOf(edit, {"insert"})

\* The edits of a document whose lines are all different.
Edits ==
    { edit \in SeqUpTo(EditOps, MaxOps) :
        \A m, n \in 1..Len(OldLines(edit)) :
            m # n => OldLines(edit)[m] # OldLines(edit)[n] }

\* The content of a document: every line ends with a line feed.
RECURSIVE ContentOf(_)
ContentOf(lines) ==
    IF lines = <<>> THEN <<>> ELSE Head(lines) \o <<"\n">> \o ContentOf(Tail(lines))

\* The patch the compare result carries for an edit: the hunk header, then
\* one line a step, with no line feed after the last one.
PatchPrefix(step) ==
    IF step.op = "keep" THEN " " ELSE IF step.op = "delete" THEN "-" ELSE "+"

RECURSIVE PatchLines(_)
PatchLines(edit) ==
    IF edit = <<>> THEN <<>>
    ELSE <<"\n", PatchPrefix(Head(edit))>> \o Head(edit).text \o PatchLines(Tail(edit))

PatchOf(edit) == <<"@@">> \o PatchLines(edit)

IsChange(edit) == \E n \in 1..Len(edit) : edit[n].op # "keep"

OtherFile ==
    [filename |-> OtherFileName, has_patch |-> TRUE, patch |-> <<"@@", "\n", "+", "q">>]

\* The entries of the tracked document in the compare result of an edit: none
\* when nothing changed, else one with the patch or one without.
TargetEntries(edit) ==
    IF ~IsChange(edit) THEN {<<>>}
    ELSE { <<[filename |-> github_target_file, has_patch |-> TRUE, patch |-> PatchOf(edit)]>>,
           <<[filename |-> github_target_file, has_patch |-> FALSE, patch |-> <<>>]>> }

ComparePayloads(edit) ==
    { before \o target : before \in {<<>>, <<OtherFile>>}, target \in TargetEntries(edit) }

DiffInit ==
    /\ PollInit
    /\ settings = CHOOSE st \in SettingsSet : TRUE
    /\ RetryIdle
    /\ UrlIdle /\ LinkIdle /\ ExtractIdle /\ RowsIdle /\ DateIdle
    /\ doc_edit \in Edits
    /\ compare_files \in ComparePayloads(doc_edit)
    /\ diff_pc = "compare"
    /\ diff_result = <<>>

\* get_commit_diff is called for the two revisions of the edit.
GetCommitDiff ==
    /\ diff_pc = "compare"
    /\ diff_result' = get_commit_diff_files(compare_files, ContentOf(OldLines(doc_edit)),
                                            ContentOf(NewLines(doc_edit)))
    /\ diff_pc' = "returned"
    /\ UNCHANGED <<doc_edit, compare_files, poll_vars, retry_vars, url_vars, link_vars,
                   extract_vars, rows_vars, date_vars>>

DiffNext == GetCommitDiff

DiffSpec == DiffInit /\ [][DiffNext]_vars

(***************************************************************************)
(* Properties of the per-candidate pipeline                                *)
(***************************************************************************)
\* The dedup key of the candidate the loop is about to process.
NextKey == _hash_link(Head(queue).apply_url)

\* The classifier raised in the call just recorded.
LlmFailed(c) == c.classified /\ ~c.llm.ok

\* The classifier returned an analysis in the call just recorded.
LlmAnswered(c) == c.classified /\ c.llm.ok

\* C1: processing a candidate whose dedup key is already in processed_jobs has
\* no side effect: the classifier is not called, no channel is called, the
\* table and the checkpoint stay as they are, and the loop goes on.
C1_SkipExistingNoSideEffects ==
    [][(ProcessCandidate /\ exists(processed_jobs, NextKey))
       => /\ processed_jobs' = processed_jobs
          /\ last_commit_sha' = last_commit_sha
          /\ llm_log' = llm_log
          /\ ~call'.classified
          /\ call'.discord = "not_called"
          /\ call'.facebook = "not_called"
          /\ call'.inserted = {}
          /\ call'.raised = NONE
          /\ pc' = "process"]_vars

\* C1 witness: a candidate with a stored key was processed (and skipped) after
\* the classifier had been called for another candidate of the same cycle.
C1_Witness ==
    /\ call.existed
    /\ exists(processed_jobs, call.link_hash)
    /\ llm_log # <<>>

\* C2: when the classifier raises for a fresh candidate, exactly one row is
\* added, for its key, with score 0, notified false and the fallback names; no
\* channel is called and the loop goes on with the next candidate.
C2_LlmFailureRecorded ==
    [][(ProcessCandidate /\ LlmFailed(call'))
       => LET row == [link_hash |-> NextKey,
                      company |-> Head(queue).company_fallback,
                      role |-> Head(queue).role_fallback,
                      score |-> 0,
                      notified |-> FALSE]
          IN  /\ ~exists(processed_jobs, NextKey)
              /\ processed_jobs' = processed_jobs \cup {row}
              /\ call'.discord = "not_called"
              /\ call'.facebook = "not_called"
              /\ pc' = "process"
              /\ queue' = Tail(queue)]_vars

\* C2 witness: the classifier failed for a candidate, its fallback row is in
\* the table and the loop stands before a further candidate.
C2_Witness ==
    /\ LlmFailed(call)
    /\ \E r \in call.inserted : r.score = 0 /\ ~r.notified /\ r.company = "Unknown"
    /\ pc = "process"
    /\ queue # <<>>

\* C3 (as claimed): every call for a fresh candidate adds exactly one row for
\* its key, whatever the classifier and the channels do, and the loop goes on.
C3_OneRecordPerFreshCandidate ==
    (call.link_hash # <<>> /\ ~call.existed)
        => /\ Cardinality(call.inserted) = 1
           /\ \A r \in call.inserted : r.link_hash = call.link_hash
           /\ call.raised = NONE

\* C4: for a classified fresh candidate each configured channel is called if
\* and only if is_tech_intern holds and prestige_score >= min_notify_score.
C4_NotifyIffQualifies ==
    LlmAnswered(call)
        => LET q == call.llm.is_tech_intern /\ call.llm.prestige_score >= min_notify_score
           IN  /\ (call.discord # "not_called") = q
               /\ (call.facebook # "not_called") = (q /\ settings.enable_facebook)

\* C4 witness: a candidate scored exactly at the threshold had its channels called.
C4_Witness ==
    /\ LlmAnswered(call)
    /\ call.llm.is_tech_intern
    /\ call.llm.prestige_score = min_notify_score
    /\ call.discord # "not_called"
    /\ call.facebook # "not_called"

\* C5 (as claimed): for a qualifying candidate the stored notified flag is true
\* exactly when the endpoint of at least one configured channel accepts the
\* delivery (e.g. score 80, Discord rejecting, Facebook accepting: true).
C5_NotifiedIffChannelSucceeded ==
    (LlmAnswered(call) /\ call.discord # "not_called")
        => \A r \in call.inserted :
              r.notified = (\/ call.discord_answer = "accepted"
                            \/ settings.enable_facebook /\ call.facebook_answer = "accepted")

\* C6: a sender that raises does not keep the other configured channel from
\* being called, nor the row from being stored, nor the loop from going on.
C6_ChannelFailureIsolated ==
    [][(ProcessCandidate /\ (call'.discord \in SendErrors \/ call'.facebook \in SendErrors))
       => /\ call'.discord # "not_called"
          /\ settings.enable_facebook => call'.facebook # "not_called"
          /\ \E r \in processed_jobs' \ processed_jobs : r.link_hash = NextKey
          /\ pc' = "process"
          /\ queue' = Tail(queue)]_vars

\* C6 witness: Discord raised, Facebook was still called, the row is stored
\* and a further candidate awaits.
C6_Witness ==
    /\ call.discord \in SendErrors
    /\ call.facebook \notin {"not_called", "n/a"}
    /\ call.inserted # {}
    /\ pc = "process"
    /\ queue # <<>>

C8_AppendOnly ==
    [][\A r \in processed_jobs : r \in processed_jobs']_vars

\* C8 witness: a later cycle met a stored link again and completed.
C8_Witness ==
    /\ pc = "returned"
    /\ exit_code = "0"
    /\ call.existed
    /\ llm_log = <<>>
    /\ processed_jobs # {}

(***************************************************************************)
(* Properties of the checkpoint state machine                              *)
(***************************************************************************)
\* A cycle that ran to its return (not killed).
CycleOver == pc = "returned" /\ exit_code \in {"0", "1"}

\* The revision source is enabled.
RevisionSourceEnabled == settings.source_type \in {"github", "both"}

\* C9 (as claimed): a cycle with the revision source enabled, no stored
\* checkpoint and a working revision source fetches the current revision,
\* stores it as the checkpoint, classifies no revision-source candidate and
\* returns 0.
C9_Bootstrap ==
    (CycleOver /\ RevisionSourceEnabled /\ sha_at_start = NoSha /\ ~github_error)
        => /\ exit_code = "0"
           /\ last_commit_sha = get_latest_commit_sha
           /\ github_result.candidates = <<>>

\* C10 (as claimed): a cycle that starts with the checkpoint equal to the
\* current revision processes no revision-source candidate, leaves the
\* checkpoint as it is and returns 0.
C10_UpToDateNoOp ==
    (CycleOver /\ RevisionSourceEnabled /\ sha_at_start # NoSha
        /\ sha_at_start = get_latest_commit_sha /\ ~github_error)
        => /\ exit_code = "0"
           /\ last_commit_sha = sha_at_start
           /\ github_result.candidates = <<>>

\* The cycle is inside, or was stopped inside, the batch of the revision source
\* with a candidate of it still unprocessed.
RevisionBatchUnfinished ==
    /\ pc \in {"process", "returned"}
    /\ phase = "github"
    /\ queue # <<>>

\* C11: in the processing path the checkpoint is written only when no
\* candidate of the revision-source batch is left; while one is left, and after
\* a crash or an exception that stopped the cycle there, the checkpoint has its
\* pre-cycle value.
C11_CheckpointAfterBatch ==
    /\ [](RevisionBatchUnfinished => last_commit_sha = sha_at_start)
    /\ [][(pc = "process" /\ last_commit_sha' # last_commit_sha)
            => (phase = "github" /\ queue = <<>>
                /\ last_commit_sha' = github_result.current_sha)]_vars

\* C11 witness: a cycle was stopped (killed, or left by an exception) after it
\* had persisted one candidate of a two-candidate batch; the checkpoint is the
\* pre-cycle one.
C11_Witness ==
    /\ pc = "returned"
    /\ exit_code \in {"1", "killed"}
    /\ phase = "github"
    /\ Len(github_result.candidates) = 2
    /\ Len(queue) = 1
    /\ processed_jobs # jobs_at_start
    /\ last_commit_sha = sha_at_start
    /\ sha_at_start # get_latest_commit_sha

\* The dedup keys of a list of candidates, and of a set of rows.
CandidateKeys(cands) == { _hash_link(cands[i].apply_url) : i \in 1..Len(cands) }
RowKeys(jobs) == { r.link_hash : r \in jobs }

\* The candidates of the diff between the checkpoint the cycle started with and
\* the head of the branch.
DiffCandidates == GithubCandidates(get_commit_diff(sha_at_start, get_latest_commit_sha))

\* A cycle of revision-source mode went through the processing path and
\* returned 0.
GithubBatchCompleted ==
    /\ settings.source_type = "github"
    /\ pc = "returned"
    /\ exit_code = "0"
    /\ sha_at_start # NoSha
    /\ sha_at_start # get_latest_commit_sha

\* C12: when a cycle over a diff completes, whatever an earlier interrupted
\* cycle over the same diff had persisted: the candidates whose key was stored
\* at the start were not classified, exactly the other keys of the diff were
\* classified and got a record, and the table holds exactly one record for
\* each key of the diff.
C12_Resumable ==
    GithubBatchCompleted
        => LET keys == CandidateKeys(DiffCandidates)
               before == RowKeys(jobs_at_start)
           IN  /\ { llm_log[i] : i \in 1..Len(llm_log) } = keys \ before
               /\ RowKeys(processed_jobs \ jobs_at_start) = keys \ before
               /\ jobs_at_start \subseteq processed_jobs
               /\ \A k \in keys : Cardinality({r \in processed_jobs : r.link_hash = k}) = 1

\* C12 witness: the checkpoint is still the bootstrap one, so no processing
\* cycle has completed before; one candidate of the two-candidate diff had
\* been persisted by an interrupted cycle and was skipped, the other was
\* classified now, and the cycle returned 0.
C12_Witness ==
    /\ GithubBatchCompleted
    /\ sha_at_start = 1
    /\ Cardinality(CandidateKeys(DiffCandidates)) = 2
    /\ \E k \in CandidateKeys(DiffCandidates) : k \in RowKeys(jobs_at_start)
    /\ Len(llm_log) = 1
    /\ last_commit_sha = get_latest_commit_sha

\* C13: under repeated invocation in revision-source mode, when no fetch
\* fails, the checkpoint eventually equals the head of the branch and stays
\* equal to it (the branch stops changing: it has finitely many revisions),
\* whatever the classifier and the channels answer.
C13_Progress ==
    ([]~github_error) => <>[](last_commit_sha = get_latest_commit_sha)

\* run_once of dual-source mode has returned after its two fetch tasks ended.
DualCycleReturned ==
    /\ settings.source_type = "both"
    /\ pc = "returned"
    /\ exit_code \in {"0", "1"}
    /\ FetchTasksOver

\* C14: in dual-source mode, when both fetches failed the cycle returns 1; when
\* exactly one failed it returns 0 with every candidate of the other source
\* taken from the queue, and the checkpoint is the fetched revision if the
\* revision source succeeded with a new revision and its pre-cycle value
\* otherwise.
C14_DualPartialFailure ==
    DualCycleReturned
        => /\ (github_error /\ airtable_error) => exit_code = "1"
           /\ (github_error # airtable_error)
                 => /\ exit_code = "0"
                    /\ phase = "airtable"
                    /\ queue = <<>>
                    /\ last_commit_sha =
                          IF ~github_error /\ github_result.should_update_sha
                          THEN github_result.current_sha
                          ELSE sha_at_start

\* C15: when run_once has returned 1, in any source mode, the stored checkpoint
\* is the one the cycle started with.
C15_FailureKeepsCheckpoint ==
    (pc = "returned" /\ exit_code = "1") => last_commit_sha = sha_at_start

\* C16: in record-store mode the checkpoint is never written; the candidates
\* of a cycle are derived from the whole current record list; and in a cycle
\* that follows a cycle over the same record list nothing is classified, no
\* sender is called and no record is inserted.
C16_RecordStoreRelist ==
    settings.source_type = "airtable"
        => /\ last_commit_sha = NoSha
           /\ pc = "process" => airtable_candidates = AirtableCandidates(records)
           /\ (relisted /\ pc \in {"process", "returned"})
                 => /\ llm_log = <<>>
                    /\ call.discord = "not_called"
                    /\ call.facebook = "not_called"
                    /\ processed_jobs = jobs_at_start

\* The link a stored key is the hash of (_hash_link is injective on the links
\* used).
HashedLink(h) == [target |-> h[2], tracking |-> h[3]]

\* C17: the key of every candidate handed to the pipeline, of either source,
\* is the hash of its normalized apply URL, and no two stored records have
\* keys of URLs that normalize to the same URL.
C17_NormalizedDedup ==
    /\ \A i \in 1..Len(queue) :
         _hash_link(queue[i].apply_url)
             = _hash_link(_normalize_candidate_url(queue[i].apply_url))
    /\ \A r1, r2 \in processed_jobs :
         _normalize_candidate_url(HashedLink(r1.link_hash))
                 = _normalize_candidate_url(HashedLink(r2.link_hash))
             => r1 = r2

\* The two fetch tasks of dual-source mode.
FetchTasks == {"github", "airtable"}

\* No fetch task has touched the checkpoint or the record table, and no
\* location touched by both tasks has been written by either.
FetchTasksShareNothing ==
    /\ \A a \in accesses : a.task \in FetchTasks => a.loc \notin StoreLocations
    /\ \A a, b \in accesses :
         (a.task \in FetchTasks /\ b.task \in FetchTasks /\ a.task # b.task /\ a.loc = b.loc)
             => (a.mode = "read" /\ b.mode = "read")

\* C18: in dual-source mode the fetch tasks touch neither the checkpoint nor
\* the record table and write nothing the other task touches; candidates are
\* processed only when both tasks are over; and every step that changes the
\* checkpoint or the record table is a step of the main flow taken after both
\* tasks are over.
C18_FetchTasksIsolated ==
    /\ [](settings.source_type = "both"
            => /\ FetchTasksShareNothing
               /\ pc = "process" => FetchTasksOver)
    /\ [][(settings.source_type = "both"
             /\ (last_commit_sha' # last_commit_sha \/ processed_jobs' # processed_jobs))
            => (pc = "process" /\ FetchTasksOver
                /\ github_task' = github_task /\ airtable_task' = airtable_task)]_vars

\* C18 witness: the revision task has returned while the record-store task,
\* which has assigned the identifiers in the shared settings, is still
\* listing; the store is as the cycle found it.
C18_Witness ==
    /\ settings.source_type = "both"
    /\ pc = "fetch"
    /\ github_task = "returned"
    /\ airtable_task = "listing"
    /\ [task |-> "airtable", mode |-> "write", loc |-> "settings.airtable_base_id"] \in accesses
    /\ [task |-> "github", mode |-> "read", loc |-> "settings.request_timeout_seconds"] \in accesses
    /\ processed_jobs = jobs_at_start
    /\ last_commit_sha = sha_at_start
    /\ processed_jobs # {}

\* Every request of the call under way has failed transiently.
AllTransient == \A i \in 1..Len(responses) : responses[i] \in Transient

\* C19: a call of a network operation makes at most Retries(op) requests (3,
\* and 2 for the classifier) and sleeps only between two requests; when every
\* request failed transiently the call is over after Retries(op) requests,
\* with no sleep after the last one, and raises the error of the last request.
C19_BoundedRetry ==
    status # "idle"
        => /\ Len(responses) <= Retries(op)
           /\ status = "running" => Len(sleeps) = Len(responses)
           /\ status \in {"returned", "raised"} => Len(sleeps) = Len(responses) - 1
           /\ (AllTransient /\ Len(responses) = Retries(op))
                 => /\ status = "raised"
                    /\ last_error = RequestOutcome(op, responses[Len(responses)]).error
           /\ (AllTransient /\ status = "raised") => Len(responses) = Retries(op)

\* C19 witness: the classifier call has raised after two transient failures
\* and one sleep.
C19_Witness ==
    /\ op = "llm"
    /\ status = "raised"
    /\ responses = <<"RateLimitError", "APITimeoutError">>
    /\ sleeps = <<1>>
    /\ last_error = "APITimeoutError"

\* C20: a request that fails non-transiently is the last request of its call:
\* the call raises at once, with no sleep after that request, in every client.
C20_NonTransientImmediate ==
    \A i \in 1..Len(responses) :
        responses[i] \in NonTransient
            => /\ i = Len(responses)
               /\ status = "raised"
               /\ Len(sleeps) = i - 1

\* A required setting of an enabled source is missing, or SOURCE_TYPE selects
\* no source mode.
ConfigurationError ==
    \/ settings.source_type \notin SourceTypes
    \/ /\ settings.source_type \in {"airtable", "both"}
       /\ \/ settings.airtable_pat = NONE
          \/ settings.airtable_base_id = NONE /\ settings.airtable_shared_view_url = NONE
          \/ settings.airtable_table_id = NONE /\ settings.airtable_shared_view_url = NONE

\* C21: with a configuration error no request is ever sent to a source, and
\* every cycle that returns returns 1.
C21_ConfigFailFast ==
    ConfigurationError
        => /\ fetch_requests = {}
           /\ (pc = "returned" /\ exit_code # "killed") => exit_code = "1"

\* C22: whenever _normalize_candidate_url returned a URL for a raw input, it
\* returns the same URL when it is called on that URL.
C22_NormalizeIdempotent ==
    url_pc = "renormalized" => renormalized = normalized

\* C23: two raw URLs that differ only by a tracking parameter and by the case
\* of scheme and host have the same result.
C23_TrackingAndCaseInsensitive ==
    url_pc \in {"normalized", "renormalized"} => normalized = other_normalized

\* The URL text a raw input stands for: the entities unescaped, a markdown
\* link replaced with its target, an enclosing bracket pair removed.
UrlText(raw) == strip_brackets(markdown_url(html_unescape(strip(raw))))

\* text without its last token when that token is in toks.
rstrip_one(text, toks) ==
    IF text # <<>> /\ text[Len(text)] \in toks THEN Before(text, Len(text)) ELSE text

\* path with exactly one trailing slash removed, left as it is when it is
\* empty or when that would make it empty.
OneSlashRemoved(path) ==
    IF path = <<>> \/ rstrip_one(path, {"/"}) = <<>> THEN path ELSE rstrip_one(path, {"/"})

\* The (key, value) pairs of a query whose key is no tracking key, in order.
Surviving(query) == SelectSeq(parse_qsl(query), LAMBDA item : ~IsTrackingKey(item[1]))

\* C24: the result is None unless the scheme of the input is http or https
\* and its host is not empty; otherwise the result has the lower-cased scheme
\* and host of the input, no fragment, no tracking parameter, the surviving
\* parameters of the input in their order, and the path of the input with
\* exactly one trailing slash removed.
C24_NormalizeResult ==
    url_pc \in {"normalized", "renormalized"}
        => LET inp == urlsplit(UrlText(raw_url))
           IN  IF inp.scheme \notin {<<"http">>, <<"https">>} \/ inp.netloc = <<>>
               THEN normalized = NONE
               ELSE /\ normalized # NONE
                    /\ LET out == urlsplit(normalized)
                       IN  /\ out.scheme = lower(inp.scheme)
                           /\ out.netloc = lower(inp.netloc)
                           /\ out.fragment = <<>>
                           /\ parse_qsl(out.query) = Surviving(out.query)
                           /\ parse_qsl(out.query) = Surviving(inp.query)
                           /\ out.path = OneSlashRemoved(inp.path)

\* C25: _is_valid_apply_link(url) is false exactly when the host is one of
\* the image hosts (or a subdomain of one), or the path ends in an image
\* extension, or the path contains "logo" or "icon", or the host ends with
\* the job-board domain and the path starts with /c/, or the host is the
\* code-hosting domain (or a subdomain of it) and the path does not contain
\* "jobs"; it is true for every other url.
SubdomainLabels == {"i.", "raw.", "user-images.", "gist.", "www.", "boards."}

IsDomainOrSubdomain(host, domain) ==
    /\ endswith(host, domain)
    /\ \/ Len(host) = Len(domain)
       \/ host[Len(host) - Len(domain)] \in SubdomainLabels

LinkRejected(url) ==
    LET host == lower(urlsplit(url).netloc)
        path == lower(urlsplit(url).path)
    IN  \/ \E image_domain \in IMAGE_DOMAINS : IsDomainOrSubdomain(host, image_domain)
        \/ \E extension \in IMAGE_EXTENSIONS : endswith(path, extension)
        \/ Contains(path, <<"logo">>)
        \/ Contains(path, <<"icon">>)
        \/ endswith(host, <<"simplify.jobs">>) /\ startswith(path, <<"/", "c", "/">>)
        \/ IsDomainOrSubdomain(host, <<"github.com">>) /\ ~Contains(path, <<"jobs">>)

C25_ValidExactly ==
    link_pc = "checked" => (link_valid <=> ~LinkRejected(link_url))

\* C26: extract_apply_link returns the normalized href of the first "Apply"
\* anchor (visible text or image alt, any letter case) whose href normalizes
\* and is valid, even when a valid href stands earlier in the row; when no
\* Apply anchor qualifies, that of the first anchor whose href normalizes and
\* is valid; NONE when there is none.
IsApplyAnchor(a) ==
    lower(a.label.text) = <<"apply">> \/ lower(a.label.alt) = <<"apply">>

Qualifies(a) ==
    /\ normalize_candidate_url(a.href) # NONE
    /\ _is_valid_apply_link(normalize_candidate_url(a.href))

FirstOf(indices) == CHOOSE i \in indices : \A j \in indices : i <= j

C26_ApplyAnchorFirst ==
    extract_pc = "extracted"
        => LET hrefs == { i \in 1..Len(row_anchors) : Qualifies(row_anchors[i]) }
               applies == { i \in hrefs : IsApplyAnchor(row_anchors[i]) }
           IN  apply_link =
                   IF applies # {}
                   THEN normalize_candidate_url(row_anchors[FirstOf(applies)].href)
                   ELSE IF hrefs # {}
                   THEN normalize_candidate_url(row_anchors[FirstOf(hrefs)].href)
                   ELSE NONE

\* An Apply anchor has won over a valid href that stands before it.
C26_Witness ==
    /\ extract_pc = "extracted"
    /\ Len(row_anchors) = 2
    /\ Qualifies(row_anchors[1]) /\ ~IsApplyAnchor(row_anchors[1])
    /\ Qualifies(row_anchors[2]) /\ IsApplyAnchor(row_anchors[2])
    /\ row_anchors[1].href # row_anchors[2].href
    /\ apply_link = normalize_candidate_url(row_anchors[2].href)

(***************************************************************************)
(* Properties of reconstruct_added_rows                                    *)
(***************************************************************************)
\* Line i of the added lines as the loops see it, and the markers it holds.
LineAt(i) == strip(added_lines[i])

OpensRow(i) == HasRowOpen(lower(LineAt(i)))

ClosesRow(i) == HasRowClose(lower(LineAt(i)))

Reconstructed == rows_pc \in {"reconstructed", "candidates"}

\* One row split across three added lines: an open-marker line, a middle
\* line, a close-marker line.
ThreeLineRow ==
    /\ Len(added_lines) = 3
    /\ OpensRow(1) /\ ~ClosesRow(1)
    /\ ~OpensRow(2) /\ ~ClosesRow(2)
    /\ ClosesRow(3) /\ ~OpensRow(3)

\* C27: on one row split across three added lines reconstruct_added_rows
\* returns exactly one row, the content of the three lines in order joined
\* by single spaces; on no lines it returns the empty list.
C27_ThreeLineRow ==
    Reconstructed
        => /\ ThreeLineRow
                => reconstructed =
                       << LineAt(1) \o <<" ">> \o LineAt(2) \o <<" ">> \o LineAt(3) >>
           /\ added_lines = <<>> => reconstructed = <<>>

\* A row of three lines whose middle line is a cell has been reconstructed.
C27_Witness ==
    /\ Reconstructed
    /\ ThreeLineRow
    /\ HasCellOpen(LineAt(2))
    /\ Len(reconstructed) = 1
    /\ Len(reconstructed[1]) = Len(LineAt(1)) + Len(LineAt(2)) + Len(LineAt(3)) + 2

\* The lines first..last, as <<first, last>>, of the added lines.
Spans ==
    { s \in (1..Len(added_lines)) \X (1..Len(added_lines)) : s[1] <= s[2] }

\* The lines of a span joined by single spaces.
SpanText(s) == join([k \in 1..(s[2] - s[1] + 1) |-> LineAt(s[1] + k - 1)], " ")

\* Pairwise disjoint spans in the order of their first line.
RECURSIVE SpansInOrder(_)
SpansInOrder(spans) ==
    IF spans = {} THEN <<>>
    ELSE LET s == CHOOSE a \in spans : \A b \in spans : a[1] <= b[1]
         IN  <<s>> \o SpansInOrder(spans \ {s})

SpanTexts(spans) ==
    [k \in 1..Cardinality(spans) |-> SpanText(SpansInOrder(spans)[k])]

\* A buffer that is emitted: it starts at a line with a row-open marker, ends
\* at the first line from there on with a row-close marker, and no line
\* after its first starts another buffer.
EmittedSpans ==
    { s \in Spans : /\ OpensRow(s[1])
                    /\ ClosesRow(s[2])
                    /\ \A k \in s[1]..(s[2] - 1) : ~ClosesRow(k)
                    /\ \A k \in (s[1] + 1)..s[2] : ~OpensRow(k) }

\* C28: the rows of the primary strategy are exactly the emitted buffers, in
\* order: each starts with an open-marker line and ends with the first
\* close-marker line from there on (possibly the same line); lines outside a
\* buffer are in no row, and a buffer whose close marker never arrives is
\* not emitted.
C28_PrimaryStrategy ==
    Reconstructed => primary_rows = SpanTexts(EmittedSpans)

\* The primary strategy has emitted a row of several lines, has left out a
\* line outside any buffer, and has dropped a row that was opened and never
\* closed.
C28_Witness ==
    /\ Reconstructed
    /\ \E s \in EmittedSpans : s[1] < s[2]
    /\ \E i \in 1..Len(added_lines) :
         /\ ~OpensRow(i)
         /\ \A s \in EmittedSpans : i < s[1] \/ i > s[2]
    /\ \E i \in 1..Len(added_lines) :
         /\ OpensRow(i)
         /\ \A s \in EmittedSpans : s[1] # i
    /\ Len(primary_rows) = Cardinality(EmittedSpans)

\* A maximal run of non-blank lines, and the runs that hold a cell marker.
Blank(i) == LineAt(i) = <<>>

Runs ==
    { s \in Spans : /\ \A k \in s[1]..s[2] : ~Blank(k)
                    /\ s[1] = 1 \/ Blank(s[1] - 1)
                    /\ s[2] = Len(added_lines) \/ Blank(s[2] + 1) }

RunsWithCell ==
    { s \in Runs : \E k \in s[1]..s[2] : HasCellOpen(lower(LineAt(k))) }

\* C29: the result is the rows of the primary strategy when there is at
\* least one; otherwise it is one row per maximal run of non-blank lines
\* that holds a cell marker, the runs without one being dropped.
C29_FallbackOnlyWhenNoRows ==
    Reconstructed
        => reconstructed = IF primary_rows # <<>> THEN primary_rows
                           ELSE SpanTexts(RunsWithCell)

\* The fallback has returned a chunk and has dropped a run without a cell.
C29_Witness ==
    /\ Reconstructed
    /\ primary_rows = <<>>
    /\ reconstructed # <<>>
    /\ Runs \ RunsWithCell # {}

\* The rows that give a candidate.
RowsWithLink ==
    SelectSeq(reconstructed, LAMBDA row : extract_apply_link_text(row) # NONE)

\* The rows of row_list are the texts of spans of lines that lie at or after
\* line from, each span after the one before it.
RECURSIVE InLineOrder(_, _)
InLineOrder(row_list, from) ==
    \/ row_list = <<>>
    \/ \E s \in Spans : /\ s[1] >= from
                        /\ Head(row_list) = SpanText(s)
                        /\ InLineOrder(Tail(row_list), s[2] + 1)

\* C30: the rows are made of pairwise disjoint spans of lines and stand in
\* the order of the first line of their span; the candidates are taken by
\* the processing loop in the order of their rows.
C30_RowOrder ==
    Reconstructed
        => /\ InLineOrder(reconstructed, 1)
           /\ Len(row_processed) <= Len(RowsWithLink)
           /\ \A k \in 1..Len(row_processed) :
                /\ row_processed[k].row_payload = RowsWithLink[k]
                /\ row_processed[k].apply_url = extract_apply_link_text(RowsWithLink[k])

\* Two rows with different links have been processed, the earlier one first.
C30_Witness ==
    /\ rows_pc = "candidates"
    /\ Len(reconstructed) >= 2
    /\ Len(row_processed) = 2
    /\ row_processed[1].apply_url # row_processed[2].apply_url
    /\ row_processed[1].row_payload = reconstructed[1]

(***************************************************************************)
(* C31                                                                     *)
(***************************************************************************)
IsBlankChar(c) == c \in Whitespace

IsUnitChar(c) == ~IsDigit(c) /\ ~IsBlankChar(c)

Blanks(n) == [i \in 1..n |-> " "]

\* The digits and the other non-blank characters of a token, in order.
DigitsOf(token) == SelectSeq(token, IsDigit)

LettersOf(token) == SelectSeq(token, IsUnitChar)

\* The token is an integer and a unit, with blanks around and between them only.
IsAgeToken(token) ==
    /\ DigitsOf(token) # <<>>
    /\ lower(LettersOf(token)) \in { <<"h">>, <<"d">>, <<"w">>, <<"m", "o">> }
    /\ \E a, b \in 0..Len(token) :
         /\ a + b + Len(DigitsOf(token)) + Len(LettersOf(token)) <= Len(token)
         /\ token = Blanks(a) \o DigitsOf(token) \o Blanks(b) \o LettersOf(token)
                      \o Blanks(Len(token) - a - b - Len(DigitsOf(token)) - Len(LettersOf(token)))

\* The number a string of decimal digits denotes.
DecimalValue(digits) ==
    LET Power(k) == IF k = 0 THEN 1 ELSE IF k = 1 THEN 10 ELSE IF k = 2 THEN 100
                    ELSE IF k = 3 THEN 1000 ELSE 10000
        Place[k \in 0..Len(digits)] ==
            IF k = 0 THEN 0
            ELSE Place[k - 1] + DigitValue(digits[k]) * Power(Len(digits) - k)
    IN  Place[Len(digits)]

\* The hours an age token goes back.
HoursBack(token) ==
    LET amount == DecimalValue(DigitsOf(token))
        unit == lower(LettersOf(token))
    IN  IF unit = <<"h">> THEN amount
        ELSE IF unit = <<"d">> THEN 24 * amount
        ELSE IF unit = <<"w">> THEN 24 * 7 * amount
        ELSE 24 * 30 * amount

\* The days from 1970-01-01 to a date of the proleptic Gregorian calendar,
\* counted in years that start in March.
CivilDays(year, month, day) ==
    LET y == IF month <= 2 THEN year - 1 ELSE year
        m == IF month <= 2 THEN month + 9 ELSE month - 3
        era == y \div 400
        yoe == y - 400 * era
        doy == (153 * m + 2) \div 5 + day - 1
    IN  146097 * era + 365 * yoe + yoe \div 4 - yoe \div 100 + doy - 719468

\* The date YYYY-MM-DD is the UTC date of the hour that lies hours before the instant.
IsDateOfHoursBefore(iso, instant, hours) ==
    /\ Len(iso) = 10
    /\ iso[5] = "-" /\ iso[8] = "-"
    /\ \A k \in {1, 2, 3, 4, 6, 7, 9, 10} : IsDigit(iso[k])
    /\ LET days == CivilDays(DecimalValue(SubSeq(iso, 1, 4)), DecimalValue(SubSeq(iso, 6, 7)),
                             DecimalValue(SubSeq(iso, 9, 10)))
           hour == 24 * CivilDays(instant.year, instant.month, instant.day) + instant.hour - hours
       IN  24 * days <= hour /\ hour < 24 * (days + 1)

ExampleInstant == [year |-> 2024, month |-> 1, day |-> 10, hour |-> 0]

\* C31: the estimate is the UTC date of the clock reading minus amount hours
\* for unit h, amount days for d, 7 * amount days for w and 30 * amount days
\* for mo, and nothing for a missing or non-matching token; at
\* 2024-01-10T00:00Z, 3d gives 2024-01-07, 1w gives 2024-01-03 and 2mo gives
\* 2023-11-11.
C31_EstimateDate ==
    date_pc = "estimated"
        => /\ IF age_token = NONE THEN posted_date = NONE
              ELSE IF ~IsAgeToken(age_token) THEN posted_date = NONE
              ELSE /\ posted_date # NONE
                   /\ IsDateOfHoursBefore(posted_date, now, HoursBack(age_token))
           /\ now = ExampleInstant /\ age_token # NONE /\ age_token = <<"3", "d">>
                => posted_date = <<"2", "0", "2", "4", "-", "0", "1", "-", "0", "7">>
           /\ now = ExampleInstant /\ age_token # NONE /\ age_token = <<"1", "w">>
                => posted_date = <<"2", "0", "2", "4", "-", "0", "1", "-", "0", "3">>
           /\ now = ExampleInstant /\ age_token # NONE /\ age_token = <<"2", "m", "o">>
                => posted_date = <<"2", "0", "2", "3", "-", "1", "1", "-", "1", "1">>

C31_Witness ==
    /\ date_pc = "estimated"
    /\ now = ExampleInstant
    /\ age_token # NONE
    /\ age_token = <<"2", "m", "o">>
    /\ posted_date = <<"2", "0", "2", "3", "-", "1", "1", "-", "1", "1">>

(***************************************************************************)
(* C32                                                                     *)
(***************************************************************************)
AgeUnitNames == { <<"h">>, <<"d">>, <<"w">>, <<"m", "o">> }

\* The text is an integer directly followed by a unit, and nothing else.
IsIntegerUnit(text) ==
    /\ DigitsOf(text) # <<>>
    /\ lower(LettersOf(text)) \in AgeUnitNames
    /\ text = DigitsOf(text) \o LettersOf(text)

\* The row has been through extract_posted_age.
AgeExtracted == row_html # <<>> /\ date_pc \in {"token", "estimated"}

\* The text of the cell at index 4 of a row with at least five cells.
AgeCellText == row_cells[5].text

\* C32 as stated: the age is none when the row has fewer than 5 cells or the
\* cleaned content of the cell at index 4 is not <integer><unit>, whatever the
\* other cells hold; otherwise it is that token; and the estimator accepts it.
C32_AgeFromFifthCell ==
    /\ AgeExtracted
         => IF Len(row_cells) < 5 THEN age_token = NONE
            ELSE IF ~IsIntegerUnit(AgeCellText) THEN age_token = NONE
            ELSE age_token # NONE /\ lower(age_token) = lower(AgeCellText)
    /\ AgeExtracted /\ date_pc = "estimated" /\ age_token # NONE => posted_date # NONE

\* C32 (amended): the age is none when the row has fewer than 5 cells or the
\* cleaned content of the cell at index 4 is not an integer and a unit with
\* at most blanks between them, whatever the other cells hold; otherwise it
\* is that content in lower case; and the estimator accepts it.
C32_AgeFromFifthCellBlanks ==
    /\ AgeExtracted
         => IF Len(row_cells) < 5 THEN age_token = NONE
            ELSE IF ~IsAgeToken(AgeCellText) THEN age_token = NONE
            ELSE age_token # NONE /\ age_token = lower(AgeCellText)
    /\ AgeExtracted /\ date_pc = "estimated" /\ age_token # NONE => posted_date # NONE

C32_Witness ==
    /\ AgeExtracted
    /\ date_pc = "estimated"
    /\ Len(row_cells) = 6
    /\ row_cells[4].text = <<"9", "d">>
    /\ AgeCellText = <<"1", "2", "M", "O">>
    /\ age_token # NONE
    /\ age_token = <<"1", "2", "m", "o">>
    /\ posted_date # NONE

(***************************************************************************)
(* C33                                                                     *)
(***************************************************************************)
\* C33: over any sequence of poll cycles the classifier is invoked at most
\* once per dedup key, the keys whose classification failed included: a key
\* handed to the classifier in this cycle was handed to it neither in an
\* earlier cycle nor earlier in this cycle.
C33_ClassifiedOncePerKey ==
    /\ \A i \in 1..Len(llm_log) : llm_log[i] \notin classified_before
    /\ \A i, j \in 1..Len(llm_log) : i # j => llm_log[i] # llm_log[j]

\* The compare result lists the tracked document among the changed files.
TargetListed ==
    \E n \in 1..Len(compare_files) : compare_files[n].filename = github_target_file

\* C34: get_commit_diff returns exactly the lines inserted into the tracked
\* document between the two revisions, in their order and without the leading
\* "+", whether the compare result carries the patch of the document or the
\* lines come from the diff of the two contents, and returns the empty list
\* when the document is not among the changed files.
C34_InsertedLines ==
    diff_pc = "returned" =>
        /\ TargetListed => diff_result = Inserted(doc_edit)
        /\ ~TargetListed => diff_result = <<>>

\* The last _process_candidate call handed the row to the classifier and the
\* classifier raised.
ClassifierFailed == call.classified /\ call.llm = NoAnalysis

\* C37: in every reachable state every record with notified = true has a score
\* of at least the notification threshold, so no record with a score below the
\* threshold is marked notified, and the record written when the classifier
\* raised has score 0 and notified = false.
C37_RecordStoreInvariant ==
    /\ \A r \in processed_jobs : r.notified => r.score >= settings.min_notify_score
    /\ \A r \in processed_jobs : r.score < settings.min_notify_score => ~r.notified
    /\ ClassifierFailed => \A r \in call.inserted : r.score = 0 /\ ~r.notified

\* The classifier has just raised for a row, its record is written, and the
\* store also holds the record of a row that qualified.
C37_Witness ==
    /\ ClassifierFailed
    /\ \E r \in call.inserted : r.score = 0 /\ ~r.notified
    /\ \E r \in processed_jobs : r.score >= settings.min_notify_score

\* A cycle of revision-source mode found a new revision and went through the
\* processing path with an empty candidate list; it was not killed.
EmptyBatchReturned ==
    /\ settings.source_type = "github"
    /\ pc = "returned"
    /\ exit_code # "killed"
    /\ github_result.should_update_sha
    /\ ~github_result.bootstrapped
    /\ github_result.candidates = <<>>

\* No row without an apply link is a candidate, was handed to the classifier
\* or the senders, or has a record.
LinklessNeverProcessed ==
    /\ \A i \in 1..Len(queue) : queue[i].apply_url # NoLink
    /\ \A i \in 1..Len(llm_log) : llm_log[i] # _hash_link(NoLink)
    /\ \A r \in processed_jobs : r.link_hash # _hash_link(NoLink)
    /\ call.link_hash # _hash_link(NoLink)

\* A step that starts the processing path of revision-source mode reads the
\* rows added after the checkpoint and no other, and the checkpoint never
\* moves back.
DiffStartsAtCheckpoint ==
    /\ last_commit_sha' >= last_commit_sha
    /\ (settings.source_type = "github" /\ pc = "idle" /\ pc' = "process")
           => github_result'.candidates =
                  GithubCandidates(SubSeq(commits, last_commit_sha, Len(commits)))

\* C38: in revision-source mode a cycle whose diff yields no candidates still
\* writes the current revision as the checkpoint and returns 0; a row without
\* an apply link is never classified, persisted or notified, and since every
\* diff starts at the checkpoint, which never moves back, no later cycle reads
\* the rows of a diff whose cycle completed.
C38_EmptyDiffAdvances ==
    /\ [](EmptyBatchReturned
             => /\ exit_code = "0"
                /\ last_commit_sha = github_result.current_sha
                /\ last_commit_sha > sha_at_start)
    /\ []LinklessNeverProcessed
    /\ [][DiffStartsAtCheckpoint]_vars

\* The cycle read a diff whose only row has no apply link, processed the empty
\* batch, moved the checkpoint to the current revision and returned 0.
C38_Witness ==
    /\ EmptyBatchReturned
    /\ exit_code = "0"
    /\ sha_at_start # NoSha
    /\ last_commit_sha = sha_at_start + 1
    /\ commits[sha_at_start].href = NoLink

\* A step that changes the checkpoint writes the revision id that the fetch of
\* the same cycle returned, and a checkpoint that is set stays set.
CheckpointWrittenFromFetch ==
    /\ last_commit_sha # NoSha => last_commit_sha' # NoSha
    /\ last_commit_sha' # last_commit_sha
           => /\ github_result' # NoResult
              /\ last_commit_sha' = github_result'.current_sha

\* C39: in every reachable state the checkpoint is absent or is a revision id
\* that get_latest_commit_sha returned in this or an earlier cycle; once set
\* it is never absent again; and it is only written with the revision id
\* fetched in the same cycle.
C39_CheckpointIsFetchedRevision ==
    /\ [](last_commit_sha = NoSha \/ last_commit_sha \in returned_shas)
    /\ [][CheckpointWrittenFromFetch]_vars

\* After the bootstrap a later cycle fetched a newer revision, processed its
\* batch and wrote that revision over the earlier checkpoint.
C39_Witness ==
    /\ pc = "returned"
    /\ sha_at_start # NoSha
    /\ last_commit_sha # sha_at_start
    /\ last_commit_sha = github_result.current_sha
    /\ {sha_at_start, last_commit_sha} \subseteq returned_shas

\* The process reads the captured recipient id at the start of its cycle:
\* main.py:466.
CapturedIdLookup ==
    /\ settings.facebook_auto_use_captured_psid
    /\ settings.facebook_recipient_psid = NONE

\* C40: the lookup of the captured recipient id never by itself makes the
\* cycle fail: a cycle of revision-source mode that starts with the lookup goes
\* on to the source fetch, so it has returned only after it asked the revision
\* source.
C40_CapturedIdLookupProceeds ==
    (CapturedIdLookup /\ settings.source_type = "github" /\ pc = "returned")
        => "github" \in fetch_requests

====
